---- MODULE Spec2Model ----
(***************************************************************************)
(* A model of the expiring maps of vnts (core/store/expire_map_me.rs, the  *)
(* blocking-recv variant, and core/store/expire_map.rs, the try_recv       *)
(* variant) and of the session cache built on them (core/store/cache.rs).  *)
(*                                                                         *)
(* Time is an integer number of seconds.  Every map of a run is one entry  *)
(* of the functions base, chan, sleepers and wk, indexed by the map's      *)
(* name: "me" is a blocking-recv map and "tr" a try_recv map, both with a  *)
(* callback that only records its arguments; "vn", "ip" and "ad" are the   *)
(* virtual_network, ip_session and addr_session maps of AppCache, "au"    *)
(* its auth_map.  Further parts model the TCP front-end                    *)
(* (core/server/tcp.rs), the configuration (config/mod.rs), the admin web  *)
(* service (core/server/web/service/mod.rs) and the guards of AppCache.    *)
(***************************************************************************)
EXTENDS Integers, Sequences, FiniteSets, TLC

VARIABLES
    now,        \* Instant::now()
    base,       \* base[m]: the HashMap<K, Value<V>> of map m (a function on the keys present)
    chan,       \* chan[m]: the DelayedTask values in the mpsc channel of map m
    sleepers,   \* sleepers[m]: the tasks spawned by insert that are still in tokio::time::sleep
    wk,         \* wk[m]: the eviction worker of map m, [pc, task]
    calls,      \* history: the eviction callback's invocations, in order
    gone,       \* history: gone[m], the entries the eviction worker of m removed
    og,         \* history: og[m][k], the optionally_get_with results on k since k was last absent or inserted
    nins,       \* history: number of values stored so far (numbers the stored values)
    gc,         \* the get_context call in progress: [pc, addr, k, ret, n, touched]
    nreg,       \* number of registrations so far (the next registration's timestamp)
    conn,       \* conn[c]: TCP connection c, its reader and writer tasks, its socket and its outbox
    acc,        \* the TCP accept loop: "accept" or "stopped"
    cfg,        \* the command line and the ConfigInfo built from it
    web,        \* the admin web service: login_time and the requests in progress
    lk          \* lk[t]: thread t's place in its sequence of lock operations, the guards it holds

\* The variables of the TCP front-end, those of the configuration and the
\* admin web service, and those of the maps and the cache.
tcpVars == <<conn, acc>>
adminVars == <<cfg, web, lk>>
cacheVars == <<now, base, chan, sleepers, wk, calls, gone, og, nins, gc, nreg>>

vars == <<now, base, chan, sleepers, wk, calls, gone, og, nins, gc, nreg, conn, acc, cfg, web, lk>>

\* ---------------------------------------------------------------- bounds

MaxInserts == 2
MaxOg == 2
MaxOpTime == 2

\* mpsc::channel::<DelayedTask<_>>(64)
ChanCap == 64

GKeys == {"k1", "k2"}
GTtls == {1, 3}

\* ------------------------------------------------------- HashMap helpers

Put(b, k, e) == [x \in DOMAIN b \cup {k} |-> IF x = k THEN e ELSE b[x]]

Del(b, k) == [x \in DOMAIN b \ {k} |-> b[x]]

\* struct Value<V> { val, deadline, expire }; gen and renewed are history
\* fields: the number of the store that made the value, and whether its
\* deadline was renewed since.
Value(v, t, ttl, g) ==
    [val |-> v, deadline |-> t + ttl, expire |-> ttl, gen |-> g, renewed |-> FALSE]

\* struct DelayedTask<K> { k, time }; gen is a history field, the number of
\* the store that scheduled the task.
DelayedTask(k, t, g) == [k |-> k, time |-> t, gen |-> g]

\* v.deadline.store(Instant::now().add(v.expire))
Renewed(e, t) == [e EXCEPT !.deadline = t + e.expire, !.renewed = TRUE]

\* The variant of map m: the blocking-recv map or the try_recv map.
Variant(m) == IF m = "me" THEN "recv" ELSE "try"

\* A variant of Locked in which the worker's write guard keeps nobody out.
Locked_NoGuard(m) == FALSE

\* The worker of m holds the write guard of m across steps only while it
\* runs a callback that takes other locks.
Locked(m) == wk[m].pc \in {"cb1", "cb2", "rm"}

Idle == [pc |-> "recv", task |-> <<>>, arc |-> 0]

\* No get_context call is in progress.
NoCall == [pc |-> "idle", addr |-> "", k |-> <<>>, ret |-> "", n |-> 0, touched |-> FALSE]

\* No TCP listener in the run.
NoTcp == conn = <<>> /\ acc = "stopped"
NoAdmin == cfg = <<>> /\ web = <<>> /\ lk = <<>>

\* ------------------------------------------------------ the blocking map

\* expire_map_me.rs insert: store the value, spawn the sleeping task.  Every
\* call stores a value of its own, the number of the call.
MeInsert(m, k, ttl) ==
    /\ Variant(m) = "recv"
    /\ ~Locked(m)
    /\ nins < MaxInserts
    /\ nins' = nins + 1
    /\ base' = [base EXCEPT ![m] = Put(@, k, Value(nins + 1, now, ttl, nins + 1))]
    /\ sleepers' = [sleepers EXCEPT ![m] = @ \cup {DelayedTask(k, now + ttl, nins + 1)}]
    /\ og' = [og EXCEPT ![m][k] = <<>>]
    /\ UNCHANGED <<tcpVars, adminVars, gc, nreg, now, chan, wk, calls, gone>>

\* The task spawned by insert: sleep(expire), then send the DelayedTask.
\* The sleep starts after `instant` was read and a tokio timer never fires
\* early, so the send happens strictly after task.time.
MeSleeper(m, s) ==
    /\ s \in sleepers[m]
    /\ now > s.time
    /\ Len(chan[m]) < ChanCap
    /\ sleepers' = [sleepers EXCEPT ![m] = @ \ {s}]
    /\ chan' = [chan EXCEPT ![m] = Append(@, s)]
    /\ UNCHANGED <<tcpVars, adminVars, gc, nreg, now, base, wk, calls, gone, og, nins>>

\* while let Some(task) = receiver.recv().await { if task.time < Instant::now() {
MeWorkerRecv(m) ==
    /\ Variant(m) = "recv"
    /\ wk[m].pc = "recv"
    /\ chan[m] # <<>>
    /\ chan' = [chan EXCEPT ![m] = Tail(@)]
    /\ wk' = [wk EXCEPT ![m] = IF Head(chan[m]).time < now
                                THEN [pc |-> "lock", task |-> <<Head(chan[m])>>, arc |-> 0]
                                ELSE Idle]
    /\ UNCHANGED <<tcpVars, adminVars, gc, nreg, now, base, sleepers, calls, gone, og, nins>>

\* if let Some(v) = events.get(&task.k) { if v.deadline.load() <= Instant::now() {
ShouldCall(b, k, t) == k \in DOMAIN b /\ b[k].deadline <= t

\* The history record of an entry of b.
Hist(m, b, k) == [m |-> m, k |-> k, val |-> b[k].val, gen |-> b[k].gen,
                  renewed |-> b[k].renewed, deadline |-> b[k].deadline,
                  expire |-> b[k].expire]

\* The worker's critical section for a map whose callback takes no lock:
\* the write guard, the deadline test, the callback, events.remove(&task.k).
WorkerEvict(m) ==
    /\ wk[m].pc = "lock"
    /\ m \notin {"ip", "ad"}
    /\ LET k == wk[m].task[1].k
           b == base[m]
       IN /\ calls' = IF ShouldCall(b, k, now)
                      THEN Append(calls, Hist(m, b, k))
                      ELSE calls
          /\ gone' = IF k \in DOMAIN b THEN [gone EXCEPT ![m] = @ \cup {Hist(m, b, k)}] ELSE gone
          /\ base' = [base EXCEPT ![m] = Del(@, k)]
          /\ og' = [og EXCEPT ![m][k] = <<>>]
    /\ wk' = [wk EXCEPT ![m] = Idle]
    /\ UNCHANGED <<tcpVars, adminVars, gc, nreg, now, chan, sleepers, nins>>

\* get_and_renew (the same code in both variants)
GetAndRenew(m, k) ==
    /\ ~Locked(m)
    /\ now <= MaxOpTime
    /\ base' = [base EXCEPT ![m] = IF k \in DOMAIN @ THEN [@ EXCEPT ![k] = Renewed(@, now)] ELSE @]
    /\ UNCHANGED <<tcpVars, adminVars, gc, nreg, now, chan, sleepers, wk, calls, gone, og, nins>>

\* ------------------------------------------------------ the try_recv map

\* A variant of Sent in which the channel outlives the worker.
Sent_NoReceiver(m, task) == Append(chan[m], task)

\* self.sender.send(task).await: an error (the task is lost) once the
\* worker has ended and dropped the receiver.
Sent(m, task) ==
    IF wk[m].pc = "exited" THEN chan[m] ELSE Append(chan[m], task)

\* expire_map.rs insert: store the value, then send the DelayedTask at once.
TryInsert(m, k, ttl) ==
    /\ Variant(m) = "try"
    /\ ~Locked(m)
    /\ nins < MaxInserts
    /\ Len(chan[m]) < ChanCap
    /\ nins' = nins + 1
    /\ base' = [base EXCEPT ![m] = Put(@, k, Value(nins + 1, now, ttl, nins + 1))]
    /\ chan' = [chan EXCEPT ![m] = Sent(m, DelayedTask(k, now + ttl, nins + 1))]
    /\ og' = [og EXCEPT ![m][k] = <<>>]
    /\ UNCHANGED <<tcpVars, adminVars, gc, nreg, now, sleepers, wk, calls, gone>>

\* while let Ok(task) = receiver.try_recv() { if task.time < Instant::now() {
TryWorkerRecv(m) ==
    /\ Variant(m) = "try"
    /\ wk[m].pc = "recv"
    /\ chan[m] # <<>>
    /\ chan' = [chan EXCEPT ![m] = Tail(@)]
    /\ wk' = [wk EXCEPT ![m] = IF Head(chan[m]).time < now
                                THEN [pc |-> "lock", task |-> <<Head(chan[m])>>, arc |-> 0]
                                ELSE Idle]
    /\ UNCHANGED <<tcpVars, adminVars, gc, nreg, now, base, sleepers, calls, gone, og, nins>>

\* try_recv() on the empty channel is an Err: the loop and the task end.
TryWorkerExit(m) ==
    /\ Variant(m) = "try"
    /\ wk[m].pc = "recv"
    /\ chan[m] = <<>>
    /\ wk' = [wk EXCEPT ![m].pc = "exited"]
    /\ UNCHANGED <<tcpVars, adminVars, gc, nreg, now, base, chan, sleepers, calls, gone, og, nins>>

\* --------------------------------------------------- optionally_get_with

\* A variant of OgwResult: the value present is not looked at, f runs and
\* its value replaces it.
OgwResult_AlwaysInstalls(b, k, t, fttl, fval, g) ==
    [base |-> Put(b, k, Value(fval, t, fttl, g)), ret |-> fval,
     ranF |-> TRUE, time |-> <<t + fttl>>]

\* The critical section of optionally_get_with on the map b at time t, f
\* returning (fttl, fval): the map afterwards, the value returned, whether
\* f ran, and the deadline of the value installed.
OgwResult(b, k, t, fttl, fval, g) ==
    IF k \in DOMAIN b
    THEN [base |-> [b EXCEPT ![k] = Renewed(b[k], t)], ret |-> b[k].val,
          ranF |-> FALSE, time |-> <<>>]
    ELSE [base |-> Put(b, k, Value(fval, t, fttl, g)), ret |-> fval,
          ranF |-> TRUE, time |-> <<t + fttl>>]

\* The history record of one optionally_get_with call: what the map held
\* before it, what the call did and returned, what the map holds after it.
OgwHist(b, k, r, t) ==
    [had |-> k \in DOMAIN b,
     old |-> IF k \in DOMAIN b THEN <<b[k].val, b[k].expire>> ELSE <<>>,
     ranF |-> r.ranF, ret |-> r.ret, at |-> t,
     new |-> IF k \in DOMAIN r.base THEN <<r.base[k].val, r.base[k].deadline>> ELSE <<>>]

\* expire_map_me.rs optionally_get_with: the critical section and nothing else.
MeOptionallyGetWith(m, k, ttl) ==
    /\ Variant(m) = "recv"
    /\ ~Locked(m)
    /\ Len(og[m][k]) < MaxOg
    /\ now <= MaxOpTime
    /\ k \notin DOMAIN base[m] => nins < MaxInserts
    /\ LET r == OgwResult(base[m], k, now, ttl, nins + 1, nins + 1)
       IN /\ base' = [base EXCEPT ![m] = r.base]
          /\ nins' = IF r.ranF THEN nins + 1 ELSE nins
          /\ og' = [og EXCEPT ![m][k] = Append(@, OgwHist(base[m], k, r, now))]
    /\ UNCHANGED <<tcpVars, adminVars, gc, nreg, now, chan, sleepers, wk, calls, gone>>

\* expire_map.rs optionally_get_with: the critical section, then the send of
\* the DelayedTask when a value was installed.
TryOptionallyGetWith(m, k, ttl) ==
    /\ Variant(m) = "try"
    /\ ~Locked(m)
    /\ Len(og[m][k]) < MaxOg
    /\ now <= MaxOpTime
    /\ k \notin DOMAIN base[m] => nins < MaxInserts
    /\ Len(chan[m]) < ChanCap
    /\ LET r == OgwResult(base[m], k, now, ttl, nins + 1, nins + 1)
       IN /\ base' = [base EXCEPT ![m] = r.base]
          /\ nins' = IF r.ranF THEN nins + 1 ELSE nins
          /\ og' = [og EXCEPT ![m][k] = Append(@, OgwHist(base[m], k, r, now))]
          /\ chan' = IF r.time # <<>>
                     THEN [chan EXCEPT ![m] = Sent(m, DelayedTask(k, r.time[1], nins + 1))]
                     ELSE chan
    /\ UNCHANGED <<tcpVars, adminVars, gc, nreg, now, sleepers, wk, calls, gone>>

\* ------------------------------------------------------------------ time

\* The instants that matter to the code: just after a deadline or a
\* task's time, and the first seconds of the run.
EventTimes ==
    UNION {{base[m][k].deadline + 1 : k \in DOMAIN base[m]} : m \in DOMAIN base}
        \cup UNION {{s.time + 1 : s \in sleepers[m]} : m \in DOMAIN base}
        \cup UNION {{chan[m][i].time + 1 : i \in 1..Len(chan[m])} : m \in DOMAIN base}

Tick(t) ==
    /\ t > now
    /\ t = now + 1 => now < MaxOpTime \/ t \in EventTimes
    /\ now' = t
    /\ UNCHANGED <<tcpVars, adminVars, gc, nreg, base, chan, sleepers, wk, calls, gone, og, nins>>

\* ---------------------------------------------- the blocking map, alone

InitMe ==
    /\ now = 0
    /\ base = [m \in {"me"} |-> <<>>]
    /\ chan = [m \in {"me"} |-> <<>>]
    /\ sleepers = [m \in {"me"} |-> {}]
    /\ wk = [m \in {"me"} |-> Idle]
    /\ calls = <<>>
    /\ gone = [m \in {"me"} |-> {}]
    /\ og = [m \in {"me"} |-> [k \in GKeys |-> <<>>]]
    /\ nins = 0
    /\ gc = NoCall
    /\ NoTcp
    /\ NoAdmin
    /\ nreg = 0

NextMe ==
    \/ \E k \in GKeys, ttl \in GTtls : MeInsert("me", k, ttl)
    \/ \E s \in sleepers["me"] : MeSleeper("me", s)
    \/ MeWorkerRecv("me")
    \/ WorkerEvict("me")
    \/ \E k \in GKeys : GetAndRenew("me", k)
    \/ \E t \in EventTimes \cup {now + 1} : Tick(t)

SpecMe == InitMe /\ [][NextMe]_vars

\* -------------------------------- one map of either variant, one key

InitMaps ==
    /\ now = 0
    /\ \E v \in {"me", "tr"} :
        /\ base = [m \in {v} |-> <<>>]
        /\ chan = [m \in {v} |-> <<>>]
        /\ sleepers = [m \in {v} |-> {}]
        /\ wk = [m \in {v} |-> Idle]
        /\ og = [m \in {v} |-> [k \in GKeys |-> <<>>]]
        /\ gone = [m \in {v} |-> {}]
    /\ calls = <<>>
    /\ nins = 0
    /\ gc = NoCall
    /\ NoTcp
    /\ NoAdmin
    /\ nreg = 0

NextMaps ==
    \/ \E m \in DOMAIN base, ttl \in GTtls : MeInsert(m, "k1", ttl)
    \/ \E m \in DOMAIN base, ttl \in GTtls : TryInsert(m, "k1", ttl)
    \/ \E m \in DOMAIN base, ttl \in GTtls : MeOptionallyGetWith(m, "k1", ttl)
    \/ \E m \in DOMAIN base, ttl \in GTtls : TryOptionallyGetWith(m, "k1", ttl)
    \/ \E m \in DOMAIN base : \E s \in sleepers[m] : MeSleeper(m, s)
    \/ \E m \in DOMAIN base : MeWorkerRecv(m)
    \/ \E m \in DOMAIN base : TryWorkerRecv(m)
    \/ \E m \in DOMAIN base : TryWorkerExit(m)
    \/ \E m \in DOMAIN base : WorkerEvict(m)
    \/ \E m \in DOMAIN base : GetAndRenew(m, "k1")
    \/ \E t \in EventTimes \cup {now + 1} : Tick(t)

SpecMaps == InitMaps /\ [][NextMaps]_vars

\* ------------------------------------------------------- the session cache

MaxRegs == 1
MaxCtx == 1

\* insert_addr_session: Duration::from_secs(20)
AddrTtl == 20
\* insert_ip_session: Duration::from_secs(24 * 3600)
IpTtl == 86400
\* virtual_network: a group is reclaimed after 7 days without use
VnTtl == 604800

Groups == {"g1"}
Vips == {1}
Addrs == {"X", "Y"}

\* The group of the callback's arguments: the key (group, ip) of ip_session,
\* the value (group, virtual_ip, timestamp) of addr_session.
CbGroup(m, k, v) == IF m = "ip" THEN k[1] ELSE v[1]

\* Variants of the callbacks that differ from the code in one test or one
\* assignment each; the frame properties tell them from the code.
IpEvicted_NoAddress(info, ip, addr) ==
    IF ip \in DOMAIN info.clients
    THEN [clients |-> Del(info.clients, ip), epoch |-> info.epoch + 1]
    ELSE info

AddrEvicted_NoTimestamp(info, virtual_ip, addr, timestamp) ==
    IF virtual_ip \in DOMAIN info.clients /\ info.clients[virtual_ip].address = addr
    THEN [clients |-> [info.clients EXCEPT ![virtual_ip].online = FALSE],
          epoch |-> info.epoch + 1]
    ELSE info

AddrEvicted_NoEpoch(info, virtual_ip, addr, timestamp) ==
    IF /\ virtual_ip \in DOMAIN info.clients
       /\ info.clients[virtual_ip].address = addr
       /\ info.clients[virtual_ip].timestamp = timestamp
    THEN [info EXCEPT !.clients[virtual_ip].online = FALSE]
    ELSE info

\* The ip_session callback on the NetworkInfo behind the lock: the client at
\* ip is removed and the epoch incremented when its address is addr.
IpEvicted(info, ip, addr) ==
    IF ip \in DOMAIN info.clients /\ info.clients[ip].address = addr
    THEN [clients |-> Del(info.clients, ip), epoch |-> info.epoch + 1]
    ELSE info

\* The addr_session callback on the NetworkInfo behind the lock: the client
\* at virtual_ip goes offline and the epoch is incremented unless its
\* address or its timestamp differ.
AddrEvicted(info, virtual_ip, addr, timestamp) ==
    IF virtual_ip \in DOMAIN info.clients
    THEN IF info.clients[virtual_ip].address # addr
            \/ info.clients[virtual_ip].timestamp # timestamp
         THEN info
         ELSE [clients |-> [info.clients EXCEPT ![virtual_ip].online = FALSE],
               epoch |-> info.epoch + 1]
    ELSE info

\* The callback of map m with the arguments (k, v) on a NetworkInfo.
Evicted(m, info, k, v) ==
    IF m = "ip" THEN IpEvicted(info, k[2], v) ELSE AddrEvicted(info, v[2], k, v[3])

\* The worker of ip_session or addr_session takes the write guard and tests
\* the deadline; it removes the key at once when the callback is not due,
\* and otherwise invokes the callback, keeping the guard.
CbLock(m) ==
    /\ wk[m].pc = "lock"
    /\ m \in {"ip", "ad"}
    /\ LET k == wk[m].task[1].k
           b == base[m]
       IN IF ShouldCall(b, k, now)
          THEN /\ calls' = Append(calls, Hist(m, b, k))
               /\ wk' = [wk EXCEPT ![m].pc = "cb1"]
               /\ UNCHANGED <<tcpVars, adminVars, base, gone>>
          ELSE /\ gone' = IF k \in DOMAIN b THEN [gone EXCEPT ![m] = @ \cup {Hist(m, b, k)}] ELSE gone
               /\ base' = [base EXCEPT ![m] = Del(@, k)]
               /\ wk' = [wk EXCEPT ![m] = Idle]
               /\ UNCHANGED calls
    /\ UNCHANGED <<tcpVars, adminVars, gc, nreg, now, chan, sleepers, og, nins>>

\* The callback's virtual_network_.get_and_renew(&group): the Arc of the
\* group's NetworkInfo, if the group is present.
Cb1(m) ==
    /\ wk[m].pc = "cb1"
    /\ LET k == wk[m].task[1].k
           g == CbGroup(m, k, base[m][k].val)
       IN IF g \in DOMAIN base["vn"]
          THEN /\ base' = [base EXCEPT !["vn"][g] = Renewed(@, now)]
               /\ wk' = [wk EXCEPT ![m].pc = "cb2", ![m].arc = base["vn"][g].gen]
          ELSE /\ wk' = [wk EXCEPT ![m].pc = "rm"]
               /\ UNCHANGED base
    /\ UNCHANGED <<tcpVars, adminVars, gc, nreg, now, chan, sleepers, calls, gone, og, nins>>

\* The callback's v.write() and what it does under that lock.  A group
\* that left virtual_network meanwhile is changed through the Arc only.
Cb2(m) ==
    /\ wk[m].pc = "cb2"
    /\ LET k == wk[m].task[1].k
           v == base[m][k].val
           g == CbGroup(m, k, v)
       IN base' = IF g \in DOMAIN base["vn"] /\ base["vn"][g].gen = wk[m].arc
                  THEN [base EXCEPT !["vn"][g].val = Evicted(m, @, k, v)]
                  ELSE base
    /\ wk' = [wk EXCEPT ![m].pc = "rm"]
    /\ UNCHANGED <<tcpVars, adminVars, gc, nreg, now, chan, sleepers, calls, gone, og, nins>>

\* events.remove(&task.k) after the callback; the write guard is released.
CbRemove(m) ==
    /\ wk[m].pc = "rm"
    /\ LET k == wk[m].task[1].k
       IN /\ gone' = [gone EXCEPT ![m] = @ \cup {Hist(m, base[m], k)}]
          /\ base' = [base EXCEPT ![m] = Del(@, k)]
    /\ wk' = [wk EXCEPT ![m] = Idle]
    /\ UNCHANGED <<tcpVars, adminVars, gc, nreg, now, chan, sleepers, calls, og, nins>>

\* A new group: no client, epoch 0.
NewInfo == [clients |-> <<>>, epoch |-> 0]

\* A registration with its bind, as one step: the group is found or
\* created (optionally_get_with, 7 days), the client at vip is set to addr,
\* online, with a new timestamp, the epoch is incremented, and the bindings
\* (group, vip) -> addr and addr -> (group, vip, timestamp) are inserted.
Register(addr, g, vip) ==
    /\ nreg < MaxRegs
    /\ ~Locked("ip") /\ ~Locked("ad")
    /\ \A m \in {"vn", "ip", "ad"} : Len(chan[m]) < ChanCap
    /\ LET ts == nreg + 1
           r == OgwResult(base["vn"], g, now, VnTtl, NewInfo, nins + 1)
           info == r.base[g].val
           client == [address |-> addr, timestamp |-> ts, online |-> TRUE]
           info2 == [clients |-> Put(info.clients, vip, client), epoch |-> info.epoch + 1]
       IN /\ base' = [base EXCEPT
                        !["vn"] = [r.base EXCEPT ![g].val = info2],
                        !["ip"] = Put(@, <<g, vip>>, Value(addr, now, IpTtl, nins + 2)),
                        !["ad"] = Put(@, addr, Value(<<g, vip, ts>>, now, AddrTtl, nins + 3))]
          /\ chan' = [chan EXCEPT
                        !["vn"] = IF r.ranF THEN Sent("vn", DelayedTask(g, r.time[1], nins + 1)) ELSE @,
                        !["ip"] = Sent("ip", DelayedTask(<<g, vip>>, now + IpTtl, nins + 2)),
                        !["ad"] = Sent("ad", DelayedTask(addr, now + AddrTtl, nins + 3))]
    /\ nins' = nins + 3
    /\ nreg' = nreg + 1
    /\ UNCHANGED <<tcpVars, adminVars, gc, now, sleepers, wk, calls, gone, og>>

\* get_context: self.addr_session.get_and_renew(addr)
GcAddr(addr) ==
    /\ gc.pc = "idle"
    /\ gc.n < MaxCtx
    /\ ~Locked("ad")
    /\ IF addr \in DOMAIN base["ad"]
       THEN /\ base' = [base EXCEPT !["ad"][addr] = Renewed(@, now)]
            /\ gc' = [pc |-> "ip", addr |-> addr,
                      k |-> <<base["ad"][addr].val[1], base["ad"][addr].val[2]>>,
                      ret |-> "", n |-> gc.n + 1,
                      touched |-> base["ad"][addr].deadline # now + base["ad"][addr].expire]
       ELSE /\ gc' = [pc |-> "done", addr |-> addr, k |-> <<>>, ret |-> "None",
                      n |-> gc.n + 1, touched |-> FALSE]
            /\ UNCHANGED base
    /\ UNCHANGED <<tcpVars, adminVars, nreg, now, chan, sleepers, wk, calls, gone, og, nins>>

\* get_context: self.ip_session.get_and_renew(&k)?
GcIp ==
    /\ gc.pc = "ip"
    /\ ~Locked("ip")
    /\ IF gc.k \in DOMAIN base["ip"]
       THEN /\ base' = [base EXCEPT !["ip"][gc.k] = Renewed(@, now)]
            /\ gc' = [gc EXCEPT !.pc = "vn",
                         !.touched = @ \/ base["ip"][gc.k].deadline # now + base["ip"][gc.k].expire]
       ELSE /\ gc' = [gc EXCEPT !.pc = "done", !.ret = "None"]
            /\ UNCHANGED base
    /\ UNCHANGED <<tcpVars, adminVars, nreg, now, chan, sleepers, wk, calls, gone, og, nins>>

\* get_context: self.virtual_network.get_and_renew(&group).map(..)
GcVn ==
    /\ gc.pc = "vn"
    /\ IF gc.k[1] \in DOMAIN base["vn"]
       THEN /\ base' = [base EXCEPT !["vn"][gc.k[1]] = Renewed(@, now)]
            /\ gc' = [gc EXCEPT !.pc = "done", !.ret = "Some"]
       ELSE /\ gc' = [gc EXCEPT !.pc = "done", !.ret = "None"]
            /\ UNCHANGED base
    /\ UNCHANGED <<tcpVars, adminVars, nreg, now, chan, sleepers, wk, calls, gone, og, nins>>

\* get_context has returned.
GcReturn ==
    /\ gc.pc = "done"
    /\ gc' = [NoCall EXCEPT !.n = gc.n]
    /\ UNCHANGED <<tcpVars, adminVars, nreg, now, base, chan, sleepers, wk, calls, gone, og, nins>>

CMaps == {"vn", "ip", "ad"}

\* AppCache::new(): three empty maps, their workers at the top of the loop.
InitCache ==
    /\ now = 0
    /\ base = [m \in CMaps |-> <<>>]
    /\ chan = [m \in CMaps |-> <<>>]
    /\ sleepers = [m \in CMaps |-> {}]
    /\ wk = [m \in CMaps |-> Idle]
    /\ calls = <<>>
    /\ gone = [m \in CMaps |-> {}]
    /\ og = [m \in CMaps |-> [k \in Groups |-> <<>>]]
    /\ nins = 0
    /\ gc = NoCall
    /\ NoTcp
    /\ NoAdmin
    /\ nreg = 0

NextCache ==
    \/ \E a \in Addrs, g \in Groups, v \in Vips : Register(a, g, v)
    \/ \E a \in Addrs : GcAddr(a)
    \/ GcIp
    \/ GcVn
    \/ GcReturn
    \/ \E m \in CMaps : TryWorkerRecv(m)
    \/ \E m \in CMaps : TryWorkerExit(m)
    \/ WorkerEvict("vn")
    \/ \E m \in {"ip", "ad"} : CbLock(m)
    \/ \E m \in {"ip", "ad"} : Cb1(m)
    \/ \E m \in {"ip", "ad"} : Cb2(m)
    \/ \E m \in {"ip", "ad"} : CbRemove(m)
    \/ \E t \in EventTimes : Tick(t)

SpecCache == InitCache /\ [][NextCache]_vars

\* ------------------------------------------- the callbacks on any group state

MaxTs == 2

\* The client tables of a group: no client, or one at virtual ip 1 with any
\* address, registration timestamp and online flag.
ClientTables ==
    {<<>>} \cup {(1 :> [address |-> a, timestamp |-> ts, online |-> o]) :
                    a \in Addrs, ts \in 1..MaxTs, o \in BOOLEAN}

\* The states of virtual_network: group g1 absent, or present with any
\* client table; n registrations have incremented its epoch.
VnStates(n) ==
    {<<>>} \cup {("g1" :> Value([clients |-> c, epoch |-> n], 0, VnTtl, 1)) :
                    c \in ClientTables}

\* The states of ip_session: no binding, or (g1, 1) bound to any address.
IpStates ==
    {<<>>} \cup {(<<"g1", 1>> :> Value(a, 0, IpTtl, 2)) : a \in Addrs}

\* The states of addr_session: each address unbound or bound to (g1, 1)
\* with any timestamp.
AdStates ==
    LET one(a, g) == {<<>>} \cup {(a :> Value(<<"g1", 1, ts>>, 0, AddrTtl, g)) : ts \in 1..MaxTs}
    IN {x @@ y : x \in one("X", 3), y \in one("Y", 4)}

RECURSIVE TasksOf(_, _)
\* The DelayedTasks that the inserts of the entries of b have sent.
TasksOf(b, ks) ==
    IF ks = {} THEN <<>>
    ELSE LET k == CHOOSE x \in ks : \A y \in ks : b[x].gen <= b[y].gen
         IN <<DelayedTask(k, b[k].deadline, b[k].gen)>> \o TasksOf(b, ks \ {k})

\* Any state of the three maps in which every entry is past its deadline
\* and its check is still queued.
InitCb ==
    /\ now = VnTtl + 1
    /\ nreg = MaxTs
    /\ \E vn \in VnStates(nreg), ip \in IpStates, ad \in AdStates :
          base = [m \in CMaps |-> IF m = "vn" THEN vn ELSE IF m = "ip" THEN ip ELSE ad]
    /\ chan = [m \in CMaps |-> TasksOf(base[m], DOMAIN base[m])]
    /\ sleepers = [m \in CMaps |-> {}]
    /\ wk = [m \in CMaps |-> Idle]
    /\ calls = <<>>
    /\ gone = [m \in CMaps |-> {}]
    /\ og = [m \in CMaps |-> [k \in Groups |-> <<>>]]
    /\ nins = 4
    /\ gc = NoCall
    /\ NoTcp
    /\ NoAdmin

NextCb ==
    \/ \E m \in CMaps : TryWorkerRecv(m)
    \/ \E m \in CMaps : TryWorkerExit(m)
    \/ WorkerEvict("vn")
    \/ \E m \in {"ip", "ad"} : CbLock(m)
    \/ \E m \in {"ip", "ad"} : Cb1(m)
    \/ \E m \in {"ip", "ad"} : Cb2(m)
    \/ \E m \in {"ip", "ad"} : CbRemove(m)

SpecCb == InitCb /\ [][NextCb]_vars

\* ------------------------------- the session maps under concurrent binds

MaxBinds == 1

\* insert_ip_session: ip_session.insert(key, value, 24 h)
InsertIpSession(k, addr) ==
    /\ ~Locked("ip")
    /\ nins - 3 * nreg < MaxBinds
    /\ Len(chan["ip"]) < ChanCap
    /\ nins' = nins + 1
    /\ base' = [base EXCEPT !["ip"] = Put(@, k, Value(addr, now, IpTtl, nins + 1))]
    /\ chan' = [chan EXCEPT !["ip"] = Sent("ip", DelayedTask(k, now + IpTtl, nins + 1))]
    /\ UNCHANGED <<tcpVars, adminVars, gc, nreg, now, sleepers, wk, calls, gone, og>>

\* insert_addr_session: addr_session.insert(key, value, 20 s)
InsertAddrSession(addr, v) ==
    /\ ~Locked("ad")
    /\ nins - 3 * nreg < MaxBinds
    /\ Len(chan["ad"]) < ChanCap
    /\ nins' = nins + 1
    /\ base' = [base EXCEPT !["ad"] = Put(@, addr, Value(v, now, AddrTtl, nins + 1))]
    /\ chan' = [chan EXCEPT !["ad"] = Sent("ad", DelayedTask(addr, now + AddrTtl, nins + 1))]
    /\ UNCHANGED <<tcpVars, adminVars, gc, nreg, now, sleepers, wk, calls, gone, og>>

\* The cache one day after the client at X has registered as (g1, 1) at
\* time 0: both bindings are past their deadlines, their checks are queued.
InitGuard ==
    /\ now = IpTtl + 1
    /\ nreg = 1
    /\ nins = 3
    /\ base = [m \in CMaps |->
                 IF m = "vn"
                 THEN ("g1" :> Value([clients |-> (1 :> [address |-> "X", timestamp |-> 1,
                                                        online |-> TRUE]),
                                     epoch |-> 1], 0, VnTtl, 1))
                 ELSE IF m = "ip" THEN (<<"g1", 1>> :> Value("X", 0, IpTtl, 2))
                 ELSE ("X" :> Value(<<"g1", 1, 1>>, 0, AddrTtl, 3))]
    /\ chan = [m \in CMaps |-> TasksOf(base[m], DOMAIN base[m])]
    /\ sleepers = [m \in CMaps |-> {}]
    /\ wk = [m \in CMaps |-> Idle]
    /\ calls = <<>>
    /\ gone = [m \in CMaps |-> {}]
    /\ og = [m \in CMaps |-> [k \in Groups |-> <<>>]]
    /\ gc = NoCall
    /\ NoTcp
    /\ NoAdmin

NextGuard ==
    \/ \E a \in Addrs : InsertIpSession(<<"g1", 1>>, a)
    \/ \E a \in Addrs : InsertAddrSession(a, <<"g1", 1, nins + 1>>)
    \/ \E a \in Addrs : GcAddr(a)
    \/ GcIp
    \/ GcVn
    \/ GcReturn
    \/ \E m \in {"ip", "ad"} : TryWorkerRecv(m)
    \/ \E m \in {"ip", "ad"} : TryWorkerExit(m)
    \/ \E m \in {"ip", "ad"} : CbLock(m)
    \/ \E m \in {"ip", "ad"} : Cb1(m)
    \/ \E m \in {"ip", "ad"} : Cb2(m)
    \/ \E m \in {"ip", "ad"} : CbRemove(m)

SpecGuard == InitGuard /\ [][NextGuard]_vars

\* ------------------------------------------------------ the TCP front-end

MaxFrames == 2

\* channel::<Vec<u8>>(100)
OutboxCap == 100
\* let mut buf = [0; 65536]
BufLen == 65536
\* if len < 12 || len > buf.len()
MinLen == 12

Conns == {1, 2}

\* The peer address of connection c.
CAddr(c) == IF c = 1 THEN "X" ELSE "Y"

\* The byte lengths of the replies put into the outbox.
ReplyLens == {12, 65535, 65536}

\* A variant of Prefix with the two length octets in the other order.
Prefix_LowFirst(len) == <<0, 0, len % 256, (len \div 256) % 256>>

\* w.write_all(&[0, 0, (len >> 8) as u8, (len & 0xFF) as u8])
Prefix(len) == <<0, 0, (len \div 256) % 256, len % 256>>

\* let len = ((head[2] as usize) << 8) | head[3] as usize
DecodeLen(head) == head[3] * 256 + head[4]

\* The frames a peer sends: the 4 octets before the frame, whether
\* NetPacket::new0 accepts it, its to-gateway flag, and what the handler it
\* is given to will return: Ok(Some(reply of rlen bytes)), Ok(None) or Err
\* for the server handler, Ok(()) or Err for the client handler.
InFrames ==
    {[head |-> Prefix(MinLen), ok |-> TRUE, gw |-> TRUE, out |-> "reply", rlen |-> l] :
        l \in ReplyLens}
    \cup {[head |-> Prefix(MinLen), ok |-> TRUE, gw |-> TRUE, out |-> o, rlen |-> 0] :
        o \in {"none", "err"}}
    \cup {[head |-> Prefix(MinLen), ok |-> TRUE, gw |-> FALSE, out |-> o, rlen |-> 0] :
        o \in {"ok", "err"}}
    \cup {[head |-> Prefix(MinLen), ok |-> FALSE, gw |-> FALSE, out |-> "ok", rlen |-> 0]}
    \cup {[head |-> Prefix(MinLen - 1), ok |-> TRUE, gw |-> FALSE, out |-> "ok", rlen |-> 0]}

\* A variant of handle0 in which a reply of the client handler's making is
\* passed on.
Handle0_ClientReplies(f) ==
    IF f.gw
    THEN [ran |-> {"server"}, result |-> f.out]
    ELSE [ran |-> {"client"}, result |-> IF f.out = "err" THEN "err" ELSE "reply"]

\* PacketHandler::handle0 on the packet of frame f: the handlers invoked
\* and the result, "reply" for Ok(Some(..)), "none" for Ok(None), "err".
Handle0(f) ==
    IF f.gw
    THEN [ran |-> {"server"}, result |-> f.out]
    ELSE [ran |-> {"client"}, result |-> IF f.out = "err" THEN "err" ELSE "none"]

\* PacketHandler::handle: .unwrap_or_else(|e| { log::error!(..); None })
Handle(f) ==
    [ran |-> Handle0(f).ran,
     result |-> IF Handle0(f).result = "err" THEN "none" ELSE Handle0(f).result]

\* A connection that was not accepted yet.
NoConn ==
    [rd |-> "none", wr |-> "none", inq |-> <<>>, rend |-> "open", cur |-> <<>>,
     outbox |-> <<>>, wdata |-> <<>>, wire |-> <<>>, wok |-> TRUE, shut |-> FALSE,
     handled |-> <<>>, enq |-> <<>>, nin |-> 0, why |-> ""]

\* A variant of ReaderStops in which the error of one connection ends the
\* reader of every connection.
ReaderStops_All(c, why) ==
    [d \in DOMAIN conn |->
        IF conn[d].rd = "none" THEN conn[d]
        ELSE [conn[d] EXCEPT !.rd = "stopped", !.why = why, !.cur = <<>>]]

\* tcp_read returns an error: the reader task of connection c logs it and
\* ends; the sender and the read half are dropped.
ReaderStops(c, why) ==
    [conn EXCEPT ![c].rd = "stopped", ![c].why = why, ![c].cur = <<>>]

\* A variant of Recv that takes the newest buffer of the outbox.
Recv_Newest(q) == [data |-> q[Len(q)], rest |-> SubSeq(q, 1, Len(q) - 1)]

\* receiver.recv().await on the non-empty outbox q: the oldest buffer.
Recv(q) == [data |-> Head(q), rest |-> Tail(q)]

RECURSIVE SumNin(_)
SumNin(cs) == IF cs = {} THEN 0
              ELSE LET c == CHOOSE x \in cs : TRUE IN conn[c].nin + SumNin(cs \ {c})

\* The number of frames the peers have sent so far.
FramesSent == SumNin(DOMAIN conn)

\* tcp.accept().await, stream_handle(stream, addr, handler.clone()).await:
\* the writer and the reader of the connection are spawned.
Accept(c) ==
    /\ acc = "accept"
    /\ conn[c].rd = "none"
    /\ conn' = [conn EXCEPT ![c].rd = "read", ![c].wr = "recv"]
    /\ UNCHANGED <<acc, adminVars, cacheVars>>

\* tcp.accept().await? returns an error: start returns it.
AcceptFail ==
    /\ acc = "accept"
    /\ acc' = "stopped"
    /\ UNCHANGED <<conn, adminVars, cacheVars>>

\* The peer of c sends a frame; its number is its place in the stream.
PeerSend(c, f) ==
    /\ conn[c].rd # "none"
    /\ conn[c].rend = "open"
    /\ FramesSent < MaxFrames
    /\ conn' = [conn EXCEPT ![c].inq = Append(@, f @@ [id |-> conn[c].nin + 1]),
                            ![c].nin = @ + 1]
    /\ UNCHANGED <<acc, adminVars, cacheVars>>

\* The peer of c closes its side, or the connection breaks on the read side.
PeerClose(c, how) ==
    /\ conn[c].rd # "none"
    /\ conn[c].rend = "open"
    /\ conn' = [conn EXCEPT ![c].rend = how]
    /\ UNCHANGED <<acc, adminVars, cacheVars>>

\* The socket of c stops taking writes.
BreakWrite(c) ==
    /\ conn[c].wr # "none"
    /\ conn[c].wok
    /\ conn' = [conn EXCEPT ![c].wok = FALSE]
    /\ UNCHANGED <<acc, adminVars, cacheVars>>

\* A variant of ReadFrame without the lower bound of the length test.
ReadFrame_NoLowerBound(c) ==
    /\ conn[c].rd = "read"
    /\ IF conn[c].inq = <<>>
       THEN /\ conn[c].rend # "open"
            /\ conn' = ReaderStops(c, conn[c].rend)
       ELSE LET f == Head(conn[c].inq)
                len == DecodeLen(f.head)
            IN conn' = IF len > BufLen
                       THEN ReaderStops(c, "length")
                       ELSE IF ~f.ok
                       THEN ReaderStops(c, "parse")
                       ELSE [conn EXCEPT ![c].rd = "handle", ![c].cur = <<f>>,
                                         ![c].inq = Tail(@)]
    /\ UNCHANGED <<acc, adminVars, cacheVars>>

\* tcp_read, from the top of the loop to the packet: read_exact of the 4
\* octets (an error at EOF or on a broken connection), the length test,
\* read_exact of the frame, NetPacket::new0(len, &mut buf)?.  Every error
\* returns from tcp_read, which drops the sender.
ReadFrame(c) ==
    /\ conn[c].rd = "read"
    /\ IF conn[c].inq = <<>>
       THEN /\ conn[c].rend # "open"
            /\ conn' = ReaderStops(c, conn[c].rend)
       ELSE LET f == Head(conn[c].inq)
                len == DecodeLen(f.head)
            IN conn' = IF len < MinLen \/ len > BufLen
                       THEN ReaderStops(c, "length")
                       ELSE IF ~f.ok
                       THEN ReaderStops(c, "parse")
                       ELSE [conn EXCEPT ![c].rd = "handle", ![c].cur = <<f>>,
                                         ![c].inq = Tail(@)]
    /\ UNCHANGED <<acc, adminVars, cacheVars>>

\* What the server handler does to the cache when it answers a packet of
\* connection c: it binds the peer address (insert_addr_session).
HandlerBinds(c, f) ==
    IF f.gw /\ f.out = "reply"
    THEN /\ base' = [base EXCEPT !["ad"] =
                        Put(@, CAddr(c), Value(<<"g1", c, nins + 1>>, now, AddrTtl, nins + 1))]
         /\ chan' = [chan EXCEPT !["ad"] =
                        Sent("ad", DelayedTask(CAddr(c), now + AddrTtl, nins + 1))]
         /\ nins' = nins + 1
    ELSE UNCHANGED <<base, chan, nins>>

\* tcp_read: handler.handle(packet, addr, &sender).await
HandleFrame(c) ==
    /\ conn[c].rd = "handle"
    /\ LET f == conn[c].cur[1]
           r == Handle(f)
       IN /\ conn' = [conn EXCEPT
                        ![c].handled = Append(@, [id |-> f.id, gw |-> f.gw, out |-> f.out,
                                                  ran |-> r.ran, result |-> r.result]),
                        ![c].rd = IF r.result = "reply" THEN "send" ELSE "read",
                        ![c].cur = IF r.result = "reply" THEN @ ELSE <<>>]
          /\ HandlerBinds(c, f)
    /\ UNCHANGED <<acc, adminVars, now, sleepers, wk, calls, gone, og, gc, nreg>>

\* tcp_read: sender.send(rs.buffer().to_vec()).await; an error, which
\* returns from tcp_read, once the writer has dropped the receiver.
SendReply(c) ==
    /\ conn[c].rd = "send"
    /\ IF conn[c].wr = "stopped"
       THEN conn' = ReaderStops(c, "send")
       ELSE /\ Len(conn[c].outbox) < OutboxCap
            /\ conn' = [conn EXCEPT
                          ![c].outbox = Append(@, [id |-> conn[c].cur[1].id,
                                                   len |-> conn[c].cur[1].rlen]),
                          ![c].enq = Append(@, conn[c].cur[1].id),
                          ![c].rd = "read",
                          ![c].cur = <<>>]
    /\ UNCHANGED <<acc, adminVars, cacheVars>>

\* The writer task: receiver.recv().await, then the write of the 4 octets.
\* recv() is None when the outbox is empty and the sender was dropped; a
\* failed write breaks the loop; after the loop the socket is shut down.
WriterRecv(c) ==
    /\ conn[c].wr = "recv"
    /\ IF conn[c].outbox = <<>>
       THEN /\ conn[c].rd = "stopped"
            /\ conn' = [conn EXCEPT ![c].wr = "stopped", ![c].shut = TRUE]
       ELSE LET data == Recv(conn[c].outbox).data
            IN conn' = IF conn[c].wok
                       THEN [conn EXCEPT
                               ![c].outbox = Recv(@).rest,
                               ![c].wdata = <<data>>,
                               ![c].wire = Append(@, [kind |-> "prefix", id |-> data.id,
                                                      bytes |-> Prefix(data.len)]),
                               ![c].wr = "body"]
                       ELSE [conn EXCEPT ![c].outbox = <<>>, ![c].wr = "stopped",
                                         ![c].shut = TRUE]
    /\ UNCHANGED <<acc, adminVars, cacheVars>>

\* The writer task: w.write_all(&data).await
WriterBody(c) ==
    /\ conn[c].wr = "body"
    /\ conn' = IF conn[c].wok
               THEN [conn EXCEPT
                       ![c].wire = Append(@, [kind |-> "data", id |-> conn[c].wdata[1].id,
                                              bytes |-> conn[c].wdata[1].len]),
                       ![c].wdata = <<>>,
                       ![c].wr = "recv"]
               ELSE [conn EXCEPT ![c].outbox = <<>>, ![c].wdata = <<>>, ![c].wr = "stopped",
                                 ![c].shut = TRUE]
    /\ UNCHANGED <<acc, adminVars, cacheVars>>

\* server::start: the cache is new, the accept loop runs, no connection yet.
InitTcp ==
    /\ now = 0
    /\ base = [m \in CMaps |-> <<>>]
    /\ chan = [m \in CMaps |-> <<>>]
    /\ sleepers = [m \in CMaps |-> {}]
    /\ wk = [m \in CMaps |-> Idle]
    /\ calls = <<>>
    /\ gone = [m \in CMaps |-> {}]
    /\ og = [m \in CMaps |-> [k \in Groups |-> <<>>]]
    /\ nins = 0
    /\ gc = [pc |-> "idle", addr |-> "", k |-> <<>>, ret |-> "", n |-> 0, touched |-> FALSE]
    /\ nreg = 0
    /\ conn = [c \in Conns |-> NoConn]
    /\ acc = "accept"
    /\ NoAdmin

\* Two connections; of the frames, one that is answered, one that the
\* parser rejects and one whose length is out of bounds.
NextTcp ==
    \/ \E c \in Conns : Accept(c)
    \/ AcceptFail
    \/ \E c \in Conns, f \in {x \in InFrames : /\ x.rlen <= MinLen
                                                /\ \/ x.out = "reply"
                                                   \/ ~x.ok
                                                   \/ DecodeLen(x.head) < MinLen} :
          PeerSend(c, f)
    \/ \E c \in Conns : PeerClose(c, "eof")
    \/ \E c \in Conns : BreakWrite(c)
    \/ \E c \in Conns : ReadFrame(c)
    \/ \E c \in Conns : HandleFrame(c)
    \/ \E c \in Conns : SendReply(c)
    \/ \E c \in Conns : WriterRecv(c)
    \/ \E c \in Conns : WriterBody(c)

SpecTcp == InitTcp /\ [][NextTcp]_vars

\* One accepted connection, every kind of frame.
InitConn ==
    /\ InitTcp!1 /\ InitTcp!2 /\ InitTcp!3 /\ InitTcp!4 /\ InitTcp!5 /\ InitTcp!6
    /\ InitTcp!7 /\ InitTcp!8 /\ InitTcp!9 /\ InitTcp!10 /\ InitTcp!11
    /\ conn = [c \in {1} |-> [NoConn EXCEPT !.rd = "read", !.wr = "recv"]]
    /\ acc = "accept"
    /\ NoAdmin

NextConn ==
    \/ \E f \in InFrames : PeerSend(1, f)
    \/ \E how \in {"eof", "error"} : PeerClose(1, how)
    \/ BreakWrite(1)
    \/ ReadFrame(1)
    \/ HandleFrame(1)
    \/ SendReply(1)
    \/ WriterRecv(1)
    \/ WriterBody(1)

SpecConn == InitConn /\ [][NextConn]_vars

\* The reader and the writer of the connection are scheduled by the
\* runtime again and again; the peer owes nothing.
SpecConnFair ==
    /\ SpecConn
    /\ WF_vars(ReadFrame(1))
    /\ WF_vars(HandleFrame(1))
    /\ WF_vars(SendReply(1))
    /\ WF_vars(WriterRecv(1))
    /\ WF_vars(WriterBody(1))

\* ---------------------------------------------------------------- claims

\* C1 (as claimed): in the blocking-recv map, the worker never removes an
\* entry that was renewed by get_and_renew while its deadline (the last
\* renewal plus its ttl) is still in the future.
C1_NoEarlyRemoval ==
    [][\A k \in DOMAIN base["me"] :
          (k \notin DOMAIN base'["me"] /\ base["me"][k].renewed)
              => base["me"][k].deadline <= now]_vars

\* C2 (as claimed): in the blocking-recv map, when a key is stored again
\* before the deadline of an earlier insert, the check scheduled by the
\* earlier insert, running before the newer value's deadline, leaves the
\* newer value in the map and does not invoke the callback.
C2_StaleCheckSparesNewer ==
    [][(wk["me"].pc = "lock" /\ wk'["me"].pc = "recv") =>
          LET t == wk["me"].task[1]
              b == base["me"]
          IN (/\ t.k \in DOMAIN b
              /\ b[t.k].gen > t.gen
              /\ ~b[t.k].renewed
              /\ b[t.k].deadline - b[t.k].expire < t.time
              /\ b[t.k].deadline > now)
                 => (t.k \in DOMAIN base'["me"] /\ calls' = calls)]_vars

\* The invocations of the callback for the value number g.
CallsFor(g) == {i \in 1..Len(calls) : calls[i].gen = g}

\* C3 (as claimed, its finite part): in the blocking-recv map, a value
\* stored by insert and never renewed that has left the map had the
\* callback invoked exactly once, with its key and value.
C3_RemovedWasCalledOnce ==
    \A e \in gone["me"] :
        ~e.renewed =>
            /\ Cardinality(CallsFor(e.gen)) = 1
            /\ \A i \in CallsFor(e.gen) : calls[i].k = e.k /\ calls[i].val = e.val

\* C10: in both variants, every optionally_get_with call on a key runs f
\* and installs f's value exactly when the key was absent, and otherwise
\* returns the value present with its deadline reset to now + its ttl; so
\* of the calls made on a key since it was absent, only the first ran f
\* and all returned the value it installed.
C10_OptionallyGetWith ==
    \A m \in DOMAIN og : \A k \in DOMAIN og[m] :
        LET h == og[m][k]
        IN \A i \in 1..Len(h) :
            /\ h[i].had => /\ ~h[i].ranF
                           /\ h[i].ret = h[i].old[1]
                           /\ h[i].new = <<h[i].old[1], h[i].at + h[i].old[2]>>
            /\ ~h[i].had => /\ h[i].ranF
                            /\ h[i].new # <<>>
                            /\ h[i].new[1] = h[i].ret
            /\ i > 1 => ~h[i].ranF /\ h[i].ret = h[1].ret

\* C10 witness: on a try_recv map, a call found the key absent and ran f,
\* and a later call returned the value the first installed.
C10_Witness ==
    \E m \in DOMAIN og : \E k \in DOMAIN og[m] :
        /\ Variant(m) = "try"
        /\ Len(og[m][k]) >= 2
        /\ og[m][k][1].ranF
        /\ og[m][k][2].had
        /\ og[m][k][2].at > og[m][k][1].at

\* The clients of group g that are marked online.
Online(g) ==
    {v \in DOMAIN base["vn"][g].val.clients : base["vn"][g].val.clients[v].online}

\* Nothing is left to happen in the session cache: no registration and no
\* get_context will come, no worker has a task to look at, every deadline
\* has passed.
AtRest == ~ENABLED NextCache

\* C4 (as claimed, its finite part): once the client has stopped sending,
\* all TTLs have elapsed and the eviction workers have nothing left to do,
\* no client is still marked online.
C4_IdleClientGoesOffline ==
    AtRest => \A g \in DOMAIN base["vn"] : Online(g) = {}

\* The worker of map m takes the step that ends part pc of its callback.
CbStep(m, pc) == wk[m].pc = pc /\ wk'[m].pc # pc

\* C5: the addr_session callback for (addr, (G, v, ts)) marks G.clients[v]
\* offline and increments G.epoch by 1 when that client exists with this
\* address and this timestamp; otherwise (client absent, other address,
\* other timestamp, group absent) it leaves the table and the epoch as
\* they were; it never removes a client.
C5_AddrCallbackFrame ==
    [][(CbStep("ad", "cb1") \/ CbStep("ad", "cb2")) =>
          LET addr == wk["ad"].task[1].k
              v == base["ad"][addr].val
          IN IF v[1] \notin DOMAIN base["vn"]
             THEN base'["vn"] = base["vn"]
             ELSE LET info == base["vn"][v[1]].val
                      info2 == base'["vn"][v[1]].val
                      match == /\ v[2] \in DOMAIN info.clients
                               /\ info.clients[v[2]].address = addr
                               /\ info.clients[v[2]].timestamp = v[3]
                  IN /\ DOMAIN info2.clients = DOMAIN info.clients
                     /\ IF CbStep("ad", "cb2") /\ match
                        THEN /\ info2.epoch = info.epoch + 1
                             /\ ~info2.clients[v[2]].online
                             /\ info2.clients[v[2]].address = addr
                             /\ info2.clients[v[2]].timestamp = v[3]
                        ELSE info2 = info]_vars

\* C5 witness: the addr_session callback alone has run, on a client with
\* its address and timestamp: the client is offline, the epoch one higher.
C5_Witness ==
    /\ wk["ad"].pc = "rm" /\ wk["ad"].arc # 0
    /\ Len(calls) = 1
    /\ "g1" \in DOMAIN base["vn"]
    /\ LET info == base["vn"]["g1"].val
           addr == wk["ad"].task[1].k
       IN /\ 1 \in DOMAIN info.clients
          /\ info.clients[1].address = addr
          /\ info.clients[1].timestamp = base["ad"][addr].val[3]
          /\ ~info.clients[1].online
          /\ info.epoch = nreg + 1

\* C6: the ip_session callback for ((G, v), addr) removes G.clients[v] and
\* increments G.epoch by 1 when that client exists with this address;
\* otherwise (client absent, other address, group absent) it leaves the
\* table and the epoch as they were.
C6_IpCallbackFrame ==
    [][(CbStep("ip", "cb1") \/ CbStep("ip", "cb2")) =>
          LET k == wk["ip"].task[1].k
              addr == base["ip"][k].val
          IN IF k[1] \notin DOMAIN base["vn"]
             THEN base'["vn"] = base["vn"]
             ELSE LET info == base["vn"][k[1]].val
                      info2 == base'["vn"][k[1]].val
                      match == /\ k[2] \in DOMAIN info.clients
                               /\ info.clients[k[2]].address = addr
                  IN IF CbStep("ip", "cb2") /\ match
                     THEN /\ info2.epoch = info.epoch + 1
                          /\ DOMAIN info2.clients = DOMAIN info.clients \ {k[2]}
                          /\ \A x \in DOMAIN info2.clients : info2.clients[x] = info.clients[x]
                     ELSE info2 = info]_vars

\* C6 witness: the ip_session callback alone has run, on a client with its
\* address: the client is gone from the table, the epoch one higher.
C6_Witness ==
    /\ wk["ip"].pc = "rm" /\ wk["ip"].arc # 0
    /\ Len(calls) = 1
    /\ "g1" \in DOMAIN base["vn"]
    /\ base["vn"]["g1"].val.clients = <<>>
    /\ base["vn"]["g1"].val.epoch = nreg + 1

\* C7: over the evictions of the session cache in any interleaving, the
\* epoch of a group never decreases, and every step that changes the
\* group's client table increases the epoch by exactly 1 (so that it
\* exceeds every earlier epoch of the group).
C7_EpochMonotonic ==
    [][\A g \in DOMAIN base["vn"] \cap DOMAIN base'["vn"] :
          LET info == base["vn"][g].val
              info2 == base'["vn"][g].val
          IN /\ info2.epoch >= info.epoch
             /\ info2.clients # info.clients => info2.epoch = info.epoch + 1]_vars

\* C7 witness: the addr_session callback has marked an online client
\* offline and the ip_session callback has then removed it: two changes,
\* the epoch two higher.
C7_Witness ==
    /\ Len(calls) >= 2
    /\ "g1" \in DOMAIN base["vn"]
    /\ base["vn"]["g1"].val.clients = <<>>
    /\ base["vn"]["g1"].val.epoch = nreg + 2

\* C8 (as claimed): every client marked online has an ip_session binding
\* (group, virtual ip) whose address is the client's address.
C8_OnlineHasIpBinding ==
    \A g \in DOMAIN base["vn"] : \A v \in Online(g) :
        /\ <<g, v>> \in DOMAIN base["ip"]
        /\ base["ip"][<<g, v>>].val = base["vn"][g].val.clients[v].address

\* C9 (as claimed): between the two renewals of get_context no other step
\* changes addr_session or ip_session, and a call that returns None has
\* changed no deadline.
C9_GetContextAtomic ==
    [][/\ (gc.pc = "ip" /\ gc'.pc = "ip")
            => (base'["ad"] = base["ad"] /\ base'["ip"] = base["ip"])
       /\ (gc.pc # "done" /\ gc'.pc = "done" /\ gc'.ret = "None")
            => ~gc'.touched]_vars

\* Nothing is left to happen on the map of the run: no call will come, no
\* sleeper, no task in the channel or with the worker, every deadline has
\* passed.
AtRestMaps == ~ENABLED NextMaps

\* C11 (as claimed, its finite part): in both variants, once the ttl has
\* elapsed and nothing is left to happen, a value that optionally_get_with
\* installed and that was never accessed again is no longer in the map.
C11_OgwEntryExpires ==
    AtRestMaps =>
        \A m \in DOMAIN base : \A k \in DOMAIN base[m] :
            ~(og[m][k] # <<>> /\ ~base[m][k].renewed /\ base[m][k].deadline < now)

\* The last invocation of the callback of map m.
LastCall(m) ==
    calls[CHOOSE i \in 1..Len(calls) :
            calls[i].m = m /\ \A j \in i + 1..Len(calls) : calls[j].m # m]

\* C12: from the worker's test 'k present and deadline <= now' to its
\* removal of k, no other step changes the worker's map (no insert and no
\* get_and_renew on k takes effect), the callback is invoked at the test
\* with k still present, and the entry removed is the one whose key and
\* value the callback received.
C12_EvictionCriticalSection ==
    [][\A m \in {"ip", "ad"} :
          /\ (wk[m].pc = "lock" /\ wk'[m].pc = "cb1") =>
                /\ calls' = Append(calls, Hist(m, base[m], wk[m].task[1].k))
                /\ base'[m] = base[m]
          /\ (wk[m].pc \in {"cb1", "cb2"}) => base'[m] = base[m]
          /\ (wk[m].pc = "rm") =>
                IF wk'[m].pc = "rm"
                THEN base'[m] = base[m]
                ELSE LET k == wk[m].task[1].k
                     IN /\ k \in DOMAIN base[m]
                        /\ LastCall(m).k = k
                        /\ LastCall(m).val = base[m][k].val
                        /\ LastCall(m).gen = base[m][k].gen
                        /\ LastCall(m).deadline = base[m][k].deadline
                        /\ base'[m] = Del(base[m], k)]_vars

\* C12 witness: the ip_session worker is past its callback and about to
\* remove (g1, 1) while a get_context call waits to renew that very key.
C12_Witness ==
    /\ wk["ip"].pc = "rm"
    /\ gc.pc = "ip"
    /\ gc.k = wk["ip"].task[1].k
    /\ gc.k \in DOMAIN base["ip"]

\* C13 (as claimed): the worker of ip_session or addr_session does not hold
\* the write guard of its map when its callback takes the guard of
\* virtual_network or the write guard of the group's NetworkInfo.
C13_NoTwoGuards ==
    [][\A m \in {"ip", "ad"} :
          (CbStep(m, "cb1") \/ CbStep(m, "cb2")) => ~Locked(m)]_vars

\* C14: every packet given to PacketHandler::handle is processed by exactly
\* one handler, the server handler if and only if its to-gateway flag is
\* set and otherwise the client handler, and a packet given to the client
\* handler yields no reply whatever that handler returned.
C14_OneHandler ==
    \A c \in DOMAIN conn : \A i \in 1..Len(conn[c].handled) :
        LET h == conn[c].handled[i]
        IN /\ Cardinality(h.ran) = 1
           /\ h.ran = {"server"} <=> h.gw
           /\ ~h.gw => (h.ran = {"client"} /\ h.result = "none")
           /\ h.gw => h.result = (IF h.out = "err" THEN "none" ELSE h.out)

\* C14 witness: the dispatcher has handled a packet for the gateway that
\* the server handler answered and a packet not for the gateway on which
\* the client handler returned Ok.
C14_Witness ==
    \E i, j \in 1..Len(conn[1].handled) :
        /\ conn[1].handled[i].gw /\ conn[1].handled[i].result = "reply"
        /\ ~conn[1].handled[j].gw /\ conn[1].handled[j].out = "ok"

\* C15 (as claimed): an error on one packet does not stop the reader and
\* produces no reply: after a handler error the reader reads on with the
\* outbox as it was, and a frame whose header NetPacket::new0 rejects does
\* not end the reader.
C15_PacketErrorSkipped ==
    [][\A c \in DOMAIN conn :
          /\ (conn[c].rd = "handle" /\ Handle0(conn[c].cur[1]).result = "err"
                /\ conn'[c].rd # "handle")
               => (conn'[c].rd = "read" /\ conn'[c].outbox = conn[c].outbox)
          /\ (conn[c].rd = "read" /\ conn[c].inq # <<>>
                /\ DecodeLen(Head(conn[c].inq).head) \in MinLen..BufLen
                /\ ~Head(conn[c].inq).ok)
               => conn'[c].rd # "stopped"]_vars

\* The frame numbers of the records of the sequence q that satisfy Test.
IdsOf(q, Test(_)) ==
    LET sel == SelectSeq(q, Test) IN [i \in 1..Len(sel) |-> sel[i].id]

IsPrefix(a, b) == Len(a) <= Len(b) /\ a = SubSeq(b, 1, Len(a))

\* C16: on one connection the frames are handled in the order of arrival,
\* none skipped; the reply to a frame is in the outbox before the next
\* frame is read; the writer puts the replies on the socket in the order
\* of their requests, each as its 4 octets followed by its bytes.
C16_InOrder ==
    \A c \in DOMAIN conn :
        LET cn == conn[c]
            replied == IdsOf(cn.handled, LAMBDA h : h.result = "reply")
            written == IdsOf(cn.wire, LAMBDA x : x.kind = "data")
        IN /\ \A i \in 1..Len(cn.handled) : cn.handled[i].id = i
           /\ cn.rd = "handle" => cn.cur[1].id = Len(cn.handled) + 1
           /\ cn.rd = "send" => cn.cur[1].id = Len(cn.handled)
           /\ IsPrefix(cn.enq, replied)
           /\ cn.rd \in {"read", "handle"} => cn.enq = replied
           /\ Len(replied) <= Len(cn.enq) + 1
           /\ IsPrefix(written, cn.enq)
           /\ \A j \in 1..Len(cn.wire) :
                IF j % 2 = 1
                THEN /\ cn.wire[j].kind = "prefix"
                     /\ cn.wire[j].id = cn.enq[(j + 1) \div 2]
                ELSE /\ cn.wire[j].kind = "data"
                     /\ cn.wire[j].id = cn.wire[j - 1].id

\* C16 witness: two frames were answered and both replies are on the
\* socket, the reply to the first before the reply to the second.
C16_Witness ==
    /\ IdsOf(conn[1].wire, LAMBDA x : x.kind = "data") = <<1, 2>>
    /\ Len(conn[1].handled) = 2

\* C17 (as claimed): the reader and the writer of a connection stop
\* together: once the writer has stopped the reader eventually stops,
\* whatever the peer sends or does not send, and once the reader has
\* stopped the writer eventually stops and has shut the socket down.
C17_StopTogether ==
    /\ (conn[1].wr = "stopped") ~> (conn[1].rd = "stopped")
    /\ (conn[1].rd = "stopped") ~> (conn[1].wr = "stopped" /\ conn[1].shut)

\* C18 (as claimed): when the connection from addr has ended, reader and
\* writer both stopped, addr has no binding in addr_session.
C18_TeardownDropsBinding ==
    \A c \in DOMAIN conn :
        (conn[c].rd = "stopped" /\ conn[c].wr = "stopped")
            => CAddr(c) \notin DOMAIN base["ad"]

FramesOnWire(c) ==
    {[head |-> conn[c].wire[j - 1].bytes, len |-> conn[c].wire[j].bytes] :
        j \in {i \in 2..Len(conn[c].wire) : conn[c].wire[i].kind = "data"}}

\* C20 (as claimed): for every frame the writer emits, whatever its
\* length, the 4 octets before it are two zero bytes and its byte length
\* as a big-endian u16, and tcp_read's decoding of them is that length.
C20_FramingRoundTrip ==
    \A c \in DOMAIN conn : \A f \in FramesOnWire(c) :
        /\ f.head[1] = 0 /\ f.head[2] = 0
        /\ f.head[3] \in 0..255 /\ f.head[4] \in 0..255
        /\ DecodeLen(f.head) = f.len

\* C20, what the code does: the round trip for every frame of at most
\* 65535 bytes; for a longer one the 4 octets carry, and tcp_read decodes,
\* the length modulo 65536.
C20_FramingRoundTripU16 ==
    \A c \in DOMAIN conn : \A f \in FramesOnWire(c) :
        /\ f.head[1] = 0 /\ f.head[2] = 0
        /\ f.head[3] \in 0..255 /\ f.head[4] \in 0..255
        /\ f.len < BufLen => DecodeLen(f.head) = f.len
        /\ DecodeLen(f.head) = f.len % BufLen

\* Frames of 65535 bytes and of 12 bytes are on the socket.
C20_Witness ==
    \E f, g \in FramesOnWire(1) : f.len = BufLen - 1 /\ g.len = MinLen

\* ------------------------------------------------------------------
\* tcp_read's length test
\* ------------------------------------------------------------------

\* The 4 octets a peer can put before a frame: any bytes; of the last two,
\* those of the lengths 0, 11, 12 and 65535.
PeerHeads ==
    {<<a, b, Prefix(l)[3], Prefix(l)[4]>> :
        a \in {0, 1}, b \in {0, 1}, l \in {0, MinLen - 1, MinLen, BufLen - 1}}

\* Frames of every such head; each is a packet for the gateway that the
\* server handler answers.
LenFrames ==
    {[head |-> h, ok |-> TRUE, gw |-> TRUE, out |-> "reply", rlen |-> MinLen] :
        h \in PeerHeads}

\* One accepted connection whose peer sends frames of every head.
NextLen ==
    \/ \E f \in LenFrames : PeerSend(1, f)
    \/ \E how \in {"eof", "error"} : PeerClose(1, how)
    \/ BreakWrite(1)
    \/ ReadFrame(1)
    \/ HandleFrame(1)
    \/ SendReply(1)
    \/ WriterRecv(1)
    \/ WriterBody(1)

SpecLen == InitConn /\ [][NextLen]_vars

\* The length the last two octets of head h declare.
DeclaredLen(h) == h[3] * 256 + h[4]

\* C21: a frame goes to the handler only if the length L its prefix
\* declares has 12 <= L <= 65536; when the reader meets a frame of another
\* declared length it ends with the length error and nothing else of the
\* connection changes: the payload stays unread, nothing is dispatched and
\* no reply is enqueued.
C21_LengthGate ==
    [][\A c \in DOMAIN conn :
          /\ conn'[c].handled # conn[c].handled =>
                /\ conn[c].cur # <<>>
                /\ DeclaredLen(conn[c].cur[1].head) >= 12
                /\ DeclaredLen(conn[c].cur[1].head) <= 65536
          /\ conn'[c].cur # <<>> /\ conn[c].cur = <<>> =>
                /\ conn[c].inq # <<>>
                /\ conn'[c].cur = <<Head(conn[c].inq)>>
                /\ DeclaredLen(Head(conn[c].inq).head) >= 12
                /\ DeclaredLen(Head(conn[c].inq).head) <= 65536
          /\ ( /\ conn[c].rd = "read" /\ conn'[c].rd # "read"
               /\ conn[c].inq # <<>>
               /\ \/ DeclaredLen(Head(conn[c].inq).head) < 12
                  \/ DeclaredLen(Head(conn[c].inq).head) > 65536 ) =>
                conn'[c] = [conn[c] EXCEPT !.rd = "stopped", !.why = "length"]
      ]_vars

\* The reader handled one frame, whose reply was written, and then ended
\* on a frame of declared length 11, which is still unread.
C21_Witness ==
    /\ conn[1].rd = "stopped" /\ conn[1].why = "length"
    /\ Len(conn[1].handled) = 1
    /\ conn[1].inq # <<>> /\ DeclaredLen(Head(conn[1].inq).head) = 11
    /\ conn[1].outbox = <<>> /\ conn[1].wire # <<>>

\* ------------------------------------------------------------------
\* ConfigInfo (config/mod.rs)
\* ------------------------------------------------------------------
\* An Ipv4Addr is its four octets; an Option is <<>> for None and <<x>>
\* for Some(x).

\* 2^n
RECURSIVE Pow2(_)
Pow2(n) == IF n = 0 THEN 1 ELSE 2 * Pow2(n - 1)

\* A u32 is its 32 bits, the highest first.
\* u32::from(Ipv4Addr): the octets in big-endian order.
U32From(ip) ==
    [i \in 1..32 |-> (ip[((i - 1) \div 8) + 1] \div Pow2(7 - ((i - 1) % 8))) % 2]

\* Ipv4Addr::from(u32)
Ipv4From(x) ==
    LET Octet(o) == x[8 * o - 7] * 128 + x[8 * o - 6] * 64 + x[8 * o - 5] * 32
                    + x[8 * o - 4] * 16 + x[8 * o - 3] * 8 + x[8 * o - 2] * 4
                    + x[8 * o - 1] * 2 + x[8 * o]
    IN <<Octet(1), Octet(2), Octet(3), Octet(4)>>

\* !x on u32
Not32(x) == [i \in 1..32 |-> 1 - x[i]]

\* a | b on u32
Or32(a, b) == [i \in 1..32 |-> IF a[i] = 1 \/ b[i] = 1 THEN 1 ELSE 0]

\* u32::leading_ones
leading_ones(x) ==
    IF \A i \in 1..32 : x[i] = 1 THEN 32
    ELSE (CHOOSE i \in 1..32 : x[i] = 0 /\ \A j \in 1..(i - 1) : x[j] = 1) - 1

\* u32::trailing_zeros
trailing_zeros(x) ==
    IF \A i \in 1..32 : x[i] = 0 THEN 32
    ELSE 32 - (CHOOSE i \in 1..32 : x[i] = 1 /\ \A j \in (i + 1)..32 : x[j] = 0)

\* A variant of calculate_broadcast without the complement of the mask.
calculate_broadcast_NoComplement(ip, netmask) ==
    Ipv4From(Or32(U32From(ip), U32From(netmask)))

calculate_broadcast(ip, netmask) ==
    Ipv4From(Or32(U32From(ip), Not32(U32From(netmask))))

\* A variant of is_valid_netmask that wants at least one leading one.
is_valid_netmask_NonZero(netmask) ==
    /\ leading_ones(U32From(netmask)) >= 1
    /\ leading_ones(U32From(netmask)) + trailing_zeros(U32From(netmask)) = 32

is_valid_netmask(netmask) ==
    leading_ones(U32From(netmask)) + trailing_zeros(U32From(netmask)) = 32

\* Ipv4Addr::is_broadcast, is_unspecified, is_multicast
is_broadcast(ip) == ip = <<255, 255, 255, 255>>
is_unspecified(ip) == ip = <<0, 0, 0, 0>>
is_multicast(ip) == ip[1] >= 224 /\ ip[1] <= 239

\* impl Default for ConfigInfo: the address fields.
ConfigDefault ==
    [gateway |-> <<10, 26, 0, 1>>, netmask |-> <<255, 255, 255, 0>>,
     broadcast |-> calculate_broadcast(<<10, 26, 0, 1>>, <<255, 255, 255, 0>>)]

\* The values of --gateway on the command line.
ArgGateways ==
    {<<10, 26, 0, 1>>, <<10, 26, 0, 0>>, <<10, 26, 0, 255>>, <<192, 168, 1, 254>>,
     <<8, 8, 8, 8>>, <<255, 255, 255, 255>>, <<0, 0, 0, 0>>, <<224, 0, 0, 1>>,
     <<239, 255, 255, 255>>, <<240, 0, 0, 1>>}

\* The netmask of b ones followed by 32 - b zeros.
PrefixMask(b) ==
    [o \in 1..4 |-> IF b >= 8 * o THEN 255
                    ELSE IF b <= 8 * (o - 1) THEN 0
                    ELSE 256 - Pow2(8 * o - b)]

\* The values of --netmask on the command line: every prefix mask, every
\* prefix mask with its lowest bit set or its highest bit cleared, and
\* every mask of the octets 0, 1, 127, 128, 254 and 255.
ArgNetmasks ==
    {PrefixMask(b) : b \in 0..32}
    \cup {[PrefixMask(b) EXCEPT ![4] = (@ - (@ % 2)) + 1] : b \in 0..32}
    \cup {[PrefixMask(b) EXCEPT ![1] = @ % 128] : b \in 0..32}
    \cup {<<a, b, c, d>> : a \in {0, 255}, b \in {0, 255},
                           c \in {0, 128, 255}, d \in {0, 1, 127, 128, 254, 255}}

\* Options::parse(): the two address options, each given or not.
InitConfig ==
    /\ now = 0
    /\ base = <<>> /\ chan = <<>> /\ sleepers = <<>> /\ wk = <<>>
    /\ calls = <<>> /\ gone = <<>> /\ og = <<>> /\ nins = 0
    /\ gc = NoCall /\ nreg = 0
    /\ NoTcp
    /\ web = <<>>
    /\ lk = <<>>
    /\ \E g \in {<<>>} \cup {<<x>> : x \in ArgGateways},
          n \in {<<>>} \cup {<<x>> : x \in ArgNetmasks} :
          cfg = [pc |-> "gateway", args |-> [gateway |-> g, netmask |-> n],
                 gateway |-> <<>>, netmask |-> <<>>, out |-> <<>>]

\* new_with_options: let gateway = ..
CheckGateway ==
    /\ cfg.pc = "gateway"
    /\ cfg' = IF cfg.args.gateway # <<>>
              THEN LET gateway == cfg.args.gateway[1]
                   IN IF is_broadcast(gateway) \/ is_unspecified(gateway) \/ is_multicast(gateway)
                      THEN [cfg EXCEPT !.pc = "panic"]
                      ELSE [cfg EXCEPT !.pc = "netmask", !.gateway = <<gateway>>]
              ELSE [cfg EXCEPT !.pc = "netmask", !.gateway = <<ConfigDefault.gateway>>]
    /\ UNCHANGED <<tcpVars, cacheVars, web, lk>>

\* new_with_options: let netmask = ..
CheckNetmask ==
    /\ cfg.pc = "netmask"
    /\ cfg' = IF cfg.args.netmask # <<>>
              THEN LET netmask == cfg.args.netmask[1]
                   IN IF ~is_valid_netmask(netmask)
                      THEN [cfg EXCEPT !.pc = "panic"]
                      ELSE [cfg EXCEPT !.pc = "build", !.netmask = <<netmask>>]
              ELSE [cfg EXCEPT !.pc = "build", !.netmask = <<ConfigDefault.netmask>>]
    /\ UNCHANGED <<tcpVars, cacheVars, web, lk>>

\* new_with_options: Self { gateway, netmask, broadcast: .. }
BuildConfig ==
    /\ cfg.pc = "build"
    /\ cfg' = [cfg EXCEPT !.pc = "done",
                          !.out = <<[gateway |-> cfg.gateway[1], netmask |-> cfg.netmask[1],
                                     broadcast |-> calculate_broadcast(cfg.gateway[1],
                                                                       cfg.netmask[1])]>>]
    /\ UNCHANGED <<tcpVars, cacheVars, web, lk>>

NextConfig ==
    \/ CheckGateway
    \/ CheckNetmask
    \/ BuildConfig

SpecConfig == InitConfig /\ [][NextConfig]_vars

\* The octets of m are 255s, then one octet of ones followed by zeros,
\* then 0s.
OnesThenZeros(m) ==
    \E j \in 1..4, k \in 0..8 :
        /\ \A o \in 1..(j - 1) : m[o] = 255
        /\ m[j] = 256 - Pow2(k)
        /\ \A o \in (j + 1)..4 : m[o] = 0

\* C22: is_valid_netmask(m) is true exactly when the 32 bits of m are a
\* (possibly empty) block of ones followed by a (possibly empty) block of
\* zeros: a given netmask passes the test of new_with_options exactly
\* then; 255.255.255.0, 0.0.0.0 and 255.255.255.255 are valid and
\* 255.255.255.1 is not.
C22_ValidNetmask ==
    /\ cfg.pc \in {"build", "done"} /\ cfg.args.netmask # <<>> =>
          OnesThenZeros(cfg.args.netmask[1])
    /\ cfg.pc = "panic" /\ cfg.gateway # <<>> =>
          /\ cfg.args.netmask # <<>>
          /\ ~OnesThenZeros(cfg.args.netmask[1])
    /\ is_valid_netmask(<<255, 255, 255, 0>>)
    /\ is_valid_netmask(<<0, 0, 0, 0>>)
    /\ is_valid_netmask(<<255, 255, 255, 255>>)
    /\ ~is_valid_netmask(<<255, 255, 255, 1>>)

\* --netmask 255.255.255.1 was refused.
C22_Witness ==
    /\ cfg.pc = "panic" /\ cfg.gateway # <<>>
    /\ cfg.args.netmask = <<(<<255, 255, 255, 1>>)>>

\* The address of the octets of g with the host bits set, the host bits
\* being those that are 0 in the prefix mask n.
HostBitsSet(g, n) ==
    [o \in 1..4 |-> (g[o] - (g[o] % (256 - n[o]))) + (255 - n[o])]

\* C23: in every configuration built, from the defaults or from accepted
\* options, broadcast is gateway | ~netmask: the gateway's network prefix
\* with all host bits set.
C23_Broadcast ==
    /\ ConfigDefault.broadcast = <<10, 26, 0, 255>>
    /\ cfg.pc = "done" =>
          LET c == cfg.out[1]
          IN /\ c.gateway = IF cfg.args.gateway = <<>> THEN ConfigDefault.gateway
                            ELSE cfg.args.gateway[1]
             /\ c.netmask = IF cfg.args.netmask = <<>> THEN ConfigDefault.netmask
                            ELSE cfg.args.netmask[1]
             /\ c.broadcast = HostBitsSet(c.gateway, c.netmask)

\* --gateway 192.168.1.254 --netmask 255.255.240.0 gave the broadcast
\* address 192.168.15.255.
C23_Witness ==
    /\ cfg.pc = "done"
    /\ cfg.args.gateway = <<(<<192, 168, 1, 254>>)>>
    /\ cfg.args.netmask = <<(<<255, 255, 240, 0>>)>>
    /\ cfg.out[1].broadcast = <<192, 168, 15, 255>>

\* ------------------------------------------------------------------
\* The admin web service (core/server/web/service/mod.rs)
\* ------------------------------------------------------------------
\* web.login_time is the AtomicCell<(Instant, usize)>; web.req[w] is the
\* login call that worker thread w of the HTTP server is running: its
\* position, the pair it loaded and whether its credentials are right.
\* auth_map is the map "au", a try_recv map whose keys are the tokens; a
\* token is the number of the store that made it.  History: web.last[w],
\* how the last login of w ended and whether its credentials were right; web.nlogin, the logins started;
\* web.fails, the failed logins that ended since the last success stored
\* its pair; web.wrong, the logins with wrong credentials that got past
\* the lockout test since the last success or the last progress of time;
\* web.overlap, whether two logins ever ran at once; web.nticks; web.chk,
\* the last check_auth; web.issued[a], when token a was issued.

MaxLogins == 4
MaxTicks == 2
MaxChecks == 2

\* The worker threads of the HTTP server that run requests at once.
Workers == 2

\* Duration::from_secs(60), Duration::from_secs(3600 * 24), count >= 3
LockSecs == 60
AuthTtl == 86400
MaxFails == 3

Tokens == 1..(MaxInserts + 1)

NoReq == [pc |-> "idle", time |-> 0, count |-> 0, good |-> FALSE]

\* VntsWebService::new: login_time = (Instant::now(), 0), an AppCache of
\* its own.
InitWeb ==
    /\ now = 0
    /\ base = [m \in {"au"} |-> <<>>]
    /\ chan = [m \in {"au"} |-> <<>>]
    /\ sleepers = [m \in {"au"} |-> {}]
    /\ wk = [m \in {"au"} |-> Idle]
    /\ og = [m \in {"au"} |-> [k \in Tokens |-> <<>>]]
    /\ gone = [m \in {"au"} |-> {}]
    /\ calls = <<>>
    /\ nins = 0
    /\ gc = NoCall
    /\ nreg = 0
    /\ NoTcp
    /\ cfg = <<>>
    /\ lk = <<>>
    /\ web = [login_time |-> [time |-> 0, count |-> 0],
              req |-> [w \in 1..Workers |-> NoReq],
              last |-> [w \in 1..Workers |-> [res |-> "none", good |-> FALSE]],
              nlogin |-> 0, fails |-> 0, wrong |-> 0, overlap |-> FALSE,
              nticks |-> 0, nchk |-> 0, chk |-> <<>>,
              issued |-> <<>>]

\* A variant of LockedOut that allows one more failure.
LockedOut_AfterFour(time, count, t) == count > MaxFails /\ t - time < LockSecs

\* login: count >= 3 && time.elapsed() < Duration::from_secs(60)
LockedOut(time, count, t) == count >= MaxFails /\ t - time < LockSecs

\* login, lines 31-34: load the pair; the lockout test and its return.
LoginLoad(w, good) ==
    /\ web.req[w].pc = "idle"
    /\ web.nlogin < MaxLogins
    /\ LET time == web.login_time.time
           count == web.login_time.count
           busy == \E v \in 1..Workers : v # w /\ web.req[v].pc # "idle"
       IN web' = IF LockedOut(time, count, now)
                 THEN [web EXCEPT !.last[w] = [res |-> "locked", good |-> good],
                                  !.nlogin = @ + 1]
                 ELSE [web EXCEPT !.req[w] = [pc |-> "eval", time |-> time,
                                              count |-> count, good |-> good],
                                  !.nlogin = @ + 1,
                                  !.wrong = IF good THEN @ ELSE @ + 1,
                                  !.overlap = @ \/ busy]
    /\ UNCHANGED <<tcpVars, cacheVars, cfg, lk>>

\* login, lines 35-39 and 48-49: the comparison of the credentials, then
\* store((time, 0)), or store((Instant::now(), count + 1)) and the return.
LoginStore(w) ==
    /\ web.req[w].pc = "eval"
    /\ LET r == web.req[w]
       IN web' = IF r.good
                 THEN [web EXCEPT !.login_time = [time |-> r.time, count |-> 0],
                                  !.req[w].pc = "insert",
                                  !.fails = 0, !.wrong = 0]
                 ELSE [web EXCEPT !.login_time = [time |-> now, count |-> r.count + 1],
                                  !.req[w] = NoReq,
                                  !.last[w] = [res |-> "wrong", good |-> FALSE],
                                  !.fails = @ + 1]
    /\ UNCHANGED <<tcpVars, cacheVars, cfg, lk>>

\* login, lines 40-45: a new token, auth_map.insert(auth, (), 24 h) of the
\* try_recv map (store the value, send the DelayedTask), Ok(auth).
LoginInsert(w) ==
    /\ web.req[w].pc = "insert"
    /\ nins < MaxInserts
    /\ Len(chan["au"]) < ChanCap
    /\ LET auth == nins + 1
       IN /\ base' = [base EXCEPT !["au"] = Put(@, auth, Value(<<>>, now, AuthTtl, auth))]
          /\ chan' = [chan EXCEPT !["au"] = Sent("au", DelayedTask(auth, now + AuthTtl, auth))]
          /\ web' = [web EXCEPT !.req[w] = NoReq, !.last[w] = [res |-> "ok", good |-> TRUE],
                                !.issued = Put(@, auth, now)]
    /\ nins' = nins + 1
    /\ UNCHANGED <<tcpVars, cfg, lk, now, sleepers, wk, calls, gone, og, gc, nreg>>

\* check_auth: self.cache.auth_map.get(auth).is_some(), a read of the map
\* that does not renew.
CheckAuth(auth) ==
    /\ web.nchk < MaxChecks
    /\ auth \in DOMAIN web.issued
    /\ web' = [web EXCEPT !.nchk = @ + 1,
                          !.chk = <<[auth |-> auth, at |-> now,
                                     ok |-> auth \in DOMAIN base["au"]]>>]
    /\ UNCHANGED <<tcpVars, cacheVars, cfg, lk>>

\* Time passes, by d seconds.
WebTick(d) ==
    /\ web.nticks < MaxTicks
    /\ now' = now + d
    /\ web' = [web EXCEPT !.nticks = @ + 1, !.wrong = 0]
    /\ UNCHANGED <<tcpVars, cfg, lk, base, chan, sleepers, wk, calls, gone, og, nins, gc, nreg>>

\* Logins from the worker threads, within the first minutes; the eviction
\* task of auth_map, which has no part in them, is left to NextAuth.
NextLogin ==
    \/ \E w \in 1..Workers, good \in BOOLEAN : LoginLoad(w, good)
    \/ \E w \in 1..Workers : LoginStore(w)
    \/ \E w \in 1..Workers : LoginInsert(w)
    \/ \E d \in {1, LockSecs - 1} : WebTick(d)

SpecLogin == InitWeb /\ [][NextLogin]_vars

\* Successful logins and checks of their tokens, over more than a day.
NextAuth ==
    \/ LoginLoad(1, TRUE)
    \/ LoginStore(1)
    \/ LoginInsert(1)
    \/ \E a \in Tokens : CheckAuth(a)
    \/ \E d \in {1, AuthTtl} : WebTick(d)
    \/ TryWorkerRecv("au")
    \/ TryWorkerExit("au")
    \/ WorkerEvict("au")

SpecAuth == InitWeb /\ [][NextAuth]_vars

\* The eviction task of auth_map has nothing left to do.
AuthWorkerDone ==
    /\ chan["au"] = <<>>
    /\ wk["au"].pc \in {"recv", "exited"}

\* C24 (as claimed): check_auth accepts a token issued at time t only
\* before t + 24 h, and once 24 h have elapsed and the eviction task of
\* auth_map has nothing left to do, the token is no longer in auth_map.
C24_TokenLifetime ==
    /\ web.chk # <<>> /\ web.chk[1].ok =>
          web.chk[1].at < web.issued[web.chk[1].auth] + AuthTtl
    /\ \A a \in DOMAIN web.issued :
          (now >= web.issued[a] + AuthTtl /\ AuthWorkerDone) => a \notin DOMAIN base["au"]

\* C25: in the try_recv map the eviction task can end whenever it finds
\* the channel empty; once it has ended it stays ended, every later send
\* of a DelayedTask fails (the channel stays empty), and from then on no
\* entry leaves the map and the callback is not invoked.
C25_WorkerExitsForGood ==
    [][\A m \in DOMAIN base :
          /\ (Variant(m) = "try" /\ wk[m].pc = "recv" /\ chan[m] = <<>>) =>
                ENABLED TryWorkerExit(m)
          /\ wk[m].pc = "exited" =>
                /\ wk'[m].pc = "exited"
                /\ chan[m] = <<>> /\ chan'[m] = <<>>
                /\ DOMAIN base[m] \subseteq DOMAIN base'[m]
                /\ gone'[m] = gone[m]
                /\ calls' = calls
      ]_vars

\* The eviction task has ended; a value stored after that is past its
\* deadline and still in the map, and the callback was never invoked.
C25_Witness ==
    /\ "tr" \in DOMAIN base
    /\ wk["tr"].pc = "exited"
    /\ \E k \in DOMAIN base["tr"] : base["tr"][k].deadline < now
    /\ nins = MaxInserts
    /\ chan["tr"] = <<>>
    /\ calls = <<>> /\ gone["tr"] = {}

\* ------------------------------------------------------------------
\* The guards of AppCache
\* ------------------------------------------------------------------
\* The locks: the RwLock of each of the maps "ip", "ad" and "vn", and the
\* RwLock of a group's NetworkInfo, "info".  A thread's program is the
\* sequence of lock operations of one pass through its code, <<"acq", l,
\* mode>> and <<"rel", l>>; where the code leaves out a part of it,
\* depending on data (an entry or a group that is present or not), the
\* thread may skip from one place of the program to a later one.
\* lk[t] = [pc, held]: the next operation (0 between two passes) and the
\* guards held, in the order they were taken.

Threads == {"wip", "wad", "wvn", "gc", "gi", "iip", "iad"}

\* The eviction task of a session map m, for one task received: the write
\* guard `events`; inside the callback virtual_network_.get_and_renew (a
\* read guard, dropped before it returns) and v.write(); events.remove and
\* the end of the guard.
SessionWorkerProg(m) ==
    <<(<<"acq", m, "w">>), (<<"acq", "vn", "r">>), (<<"rel", "vn">>),
      (<<"acq", "info", "w">>), (<<"rel", "info">>), (<<"rel", m>>)>>

\* A variant of VnWorkerProg whose callback looks into ip_session.
VnWorkerProg_ReadsIp ==
    <<(<<"acq", "vn", "w">>), (<<"acq", "ip", "r">>), (<<"rel", "ip">>), (<<"rel", "vn">>)>>

\* The eviction task of virtual_network: its callback is empty.
VnWorkerProg ==
    <<(<<"acq", "vn", "w">>), (<<"rel", "vn">>)>>

\* get_context: three get_and_renew calls, one after the other.
GetContextProg ==
    <<(<<"acq", "ad", "r">>), (<<"rel", "ad">>), (<<"acq", "ip", "r">>), (<<"rel", "ip">>),
      (<<"acq", "vn", "r">>), (<<"rel", "vn">>)>>

\* group_info: virtual_network.get(&group), then info.read() to the end.
GroupInfoProg ==
    <<(<<"acq", "vn", "r">>), (<<"rel", "vn">>), (<<"acq", "info", "r">>), (<<"rel", "info">>)>>

\* insert_ip_session, insert_addr_session: the write guard of insert.
InsertProg(m) ==
    <<(<<"acq", m, "w">>), (<<"rel", m>>)>>

Prog(t) ==
    CASE t = "wip" -> SessionWorkerProg("ip")
      [] t = "wad" -> SessionWorkerProg("ad")
      [] t = "wvn" -> VnWorkerProg
      [] t = "gc" -> GetContextProg
      [] t = "gi" -> GroupInfoProg
      [] t = "iip" -> InsertProg("ip")
      [] t = "iad" -> InsertProg("ad")

\* The parts a pass may leave out, <<from, to>>.  An eviction task: no
\* callback for an entry that is absent or was renewed, nothing under
\* v.write() for a group that is absent.  get_context: None after the
\* first or the second lookup.  group_info: None for an unknown group.
Skips(t) ==
    CASE t \in {"wip", "wad"} -> {<<2, 6>>, <<4, 6>>}
      [] t = "gc" -> {<<3, 7>>, <<5, 7>>}
      [] t = "gi" -> {<<3, 5>>}
      [] OTHER -> {}

NoPass == [pc |-> 0, held |-> <<>>]

InitLocks ==
    /\ now = 0
    /\ base = <<>> /\ chan = <<>> /\ sleepers = <<>> /\ wk = <<>>
    /\ calls = <<>> /\ gone = <<>> /\ og = <<>> /\ nins = 0
    /\ gc = NoCall /\ nreg = 0
    /\ NoTcp
    /\ cfg = <<>>
    /\ web = <<>>
    /\ lk = [t \in Threads |-> NoPass]

\* The operation thread t is at.
NextOp(t) == Prog(t)[lk[t].pc]

AtAcquire(t) == lk[t].pc \in 1..Len(Prog(t)) /\ NextOp(t)[1] = "acq"

Holders(l, mode) ==
    {t \in Threads : \E i \in 1..Len(lk[t].held) : lk[t].held[i] = <<l, mode>>}

\* The threads waiting for the write lock of l.
WaitingWriters(l) ==
    {t \in Threads : AtAcquire(t) /\ NextOp(t)[2] = l /\ NextOp(t)[3] = "w"}

\* parking_lot's RwLock: a writer needs the lock free; a reader needs it
\* free of a writer, and waits behind a writer that is waiting.  The
\* threads that thread t, which is at an acquire, waits for.
Blockers(t) ==
    IF ~AtAcquire(t) THEN {}
    ELSE LET l == NextOp(t)[2]
         IN IF NextOp(t)[3] = "w"
            THEN (Holders(l, "w") \cup Holders(l, "r")) \ {t}
            ELSE (Holders(l, "w") \cup WaitingWriters(l)) \ {t}

\* Where thread t is once it has reached place pc of its program.
At(t, pc) == IF pc > Len(Prog(t)) THEN 0 ELSE pc

\* A thread starts a pass through its code.
StartPass(t) ==
    /\ lk[t].pc = 0
    /\ lk' = [lk EXCEPT ![t].pc = 1]
    /\ UNCHANGED <<tcpVars, cacheVars, cfg, web>>

\* The code leaves out a part of the pass.
SkipPart(t, s) ==
    /\ lk[t].pc = s[1]
    /\ lk' = [lk EXCEPT ![t].pc = At(t, s[2])]
    /\ UNCHANGED <<tcpVars, cacheVars, cfg, web>>

\* read() or write() returns the guard, once the thread waits for nobody.
Acquire(t) ==
    /\ AtAcquire(t)
    /\ Blockers(t) = {}
    /\ lk' = [lk EXCEPT ![t].held = Append(@, <<NextOp(t)[2], NextOp(t)[3]>>),
                        ![t].pc = @ + 1]
    /\ UNCHANGED <<tcpVars, cacheVars, cfg, web>>

\* A guard is dropped: the one taken last.
Release(t) ==
    /\ lk[t].pc \in 1..Len(Prog(t))
    /\ NextOp(t)[1] = "rel"
    /\ lk[t].held[Len(lk[t].held)][1] = NextOp(t)[2]
    /\ lk' = [lk EXCEPT ![t].held = SubSeq(@, 1, Len(@) - 1),
                        ![t].pc = At(t, @ + 1)]
    /\ UNCHANGED <<tcpVars, cacheVars, cfg, web>>

NextLocks ==
    \/ \E t \in Threads : StartPass(t)
    \/ \E t \in Threads : \E s \in Skips(t) : SkipPart(t, s)
    \/ \E t \in Threads : Acquire(t)
    \/ \E t \in Threads : Release(t)

SpecLocks == InitLocks /\ [][NextLocks]_vars

\* session maps before virtual_network before a NetworkInfo
LockRank(l) == CASE l \in {"ip", "ad"} -> 1 [] l = "vn" -> 2 [] l = "info" -> 3

\* The threads that can go on: those of L, and those that wait only for
\* threads that can go on.
RECURSIVE CanGoOn(_)
CanGoOn(L) ==
    LET more == {t \in Threads \ L : Blockers(t) \subseteq L}
    IN IF more = {} THEN L ELSE CanGoOn(L \cup more)

\* C26: a thread takes a guard only while every guard it holds is of a
\* lock earlier in the order session map, virtual_network, NetworkInfo;
\* and no thread is in a deadlock: starting from the threads that wait
\* for nothing, every thread waits only for threads that can go on.
C26_LockOrder ==
    /\ \A t \in Threads : \A i, j \in 1..Len(lk[t].held) :
          i < j => LockRank(lk[t].held[i][1]) < LockRank(lk[t].held[j][1])
    /\ CanGoOn({t \in Threads : Blockers(t) = {}}) = Threads

\* The eviction task of ip_session holds its map and the NetworkInfo; the
\* eviction task of addr_session, holding its map, and group_info wait for
\* the NetworkInfo.
C26_Witness ==
    /\ lk["wip"].held = <<(<<"ip", "w">>), (<<"info", "w">>)>>
    /\ lk["wad"].held = <<(<<"ad", "w">>)>> /\ AtAcquire("wad") /\ NextOp("wad")[2] = "info"
    /\ AtAcquire("gi") /\ NextOp("gi")[2] = "info"
    /\ AtAcquire("gc") /\ NextOp("gc")[2] = "ad" /\ Blockers("gc") # {}

\* C27 (as claimed): in the blocking-recv map, of two values stored with
\* the same ttl and never renewed, the one stored first has its callback
\* invoked first (the invocations themselves never overlap: one task runs
\* them all).
C27_CallbacksInOrder ==
    \A i, j \in 1..Len(calls) :
        ( /\ calls[i].m = "me" /\ calls[j].m = "me"
          /\ ~calls[i].renewed /\ ~calls[j].renewed
          /\ calls[i].expire = calls[j].expire
          /\ calls[i].gen < calls[j].gen ) => i < j

\* C28 (as claimed): get_context(addr) goes on to return the context
\* (G, v) only if, when it looks (G, v) up in ip_session, the binding maps
\* to addr; otherwise it returns None.
C28_ContextOwner ==
    [][/\ (gc.pc = "ip" /\ gc'.pc = "vn") => base["ip"][gc.k].val = gc.addr
       /\ (gc.pc = "ip" /\ gc.k \in DOMAIN base["ip"] /\ base["ip"][gc.k].val # gc.addr
           /\ gc'.pc # "ip") => (gc'.pc = "done" /\ gc'.ret = "None")
       /\ (gc'.pc = "done" /\ gc'.ret = "Some") => gc.pc \in {"vn", "done"}
      ]_vars

\* C29: a login that starts while the stored count is 3 or more and less
\* than 60 s after the stored time, the time of the latest failure, is
\* rejected at once, whatever its credentials, and changes nothing; a
\* login with the right credentials that gets past that test stores the
\* count 0; and as long as no two logins ran at once, the stored count is
\* the number of failed logins since the last successful one.
C29_Lockout ==
    [][/\ ( /\ web'.nlogin = web.nlogin + 1
            /\ web.login_time.count >= 3
            /\ now - web.login_time.time < 60 ) =>
              /\ web'.req = web.req
              /\ web'.login_time = web.login_time
              /\ web'.issued = web.issued
              /\ base' = base
              /\ \A w \in 1..Workers :
                    web'.last[w] # web.last[w] => web'.last[w].res = "locked"
       /\ \A w \in 1..Workers :
            /\ (web.req[w].pc = "eval" /\ web'.req[w].pc = "insert") =>
                   /\ web.req[w].good
                   /\ web'.login_time.count = 0
            /\ (web.req[w].pc = "eval" /\ web'.req[w].pc = "idle") =>
                   /\ ~web.req[w].good
                   /\ web'.login_time = [time |-> now, count |-> web.req[w].count + 1]
       /\ ~web'.overlap => web'.login_time.count = web'.fails
      ]_vars

\* Three failed logins at time 0; 59 s later a login with the right
\* credentials was rejected, and the stored pair is still (0, 3).
C29_Witness ==
    /\ web.login_time = [time |-> 0, count |-> 3]
    /\ web.fails = 3 /\ now = 59
    /\ web.last[1] = [res |-> "locked", good |-> TRUE]
    /\ web.nlogin = 4
    /\ DOMAIN web.issued = {}

Min(a, b) == IF a < b THEN a ELSE b

\* C30 (as claimed): whatever the interleaving of the logins, the stored
\* count is at least min(n, 3) after n failed logins with no success in
\* between, and no more than three logins with wrong credentials get past
\* the lockout test before it takes effect.
C30_EveryFailureCounted ==
    /\ web.login_time.count >= Min(web.fails, MaxFails)
    /\ web.wrong <= MaxFails

\* The network address of g under the prefix mask n (g & n): the octets
\* of g with the host bits cleared.
NetworkOf(g, n) == [o \in 1..4 |-> g[o] - (g[o] % (256 - n[o]))]

\* C31 (as claimed): in every configuration that new_with_options builds,
\* the gateway differs from the broadcast address derived from it and
\* from the network address of its subnet.
C31_GatewayIsHost ==
    cfg.pc = "done" =>
        /\ cfg.out[1].gateway # cfg.out[1].broadcast
        /\ cfg.out[1].gateway # NetworkOf(cfg.out[1].gateway, cfg.out[1].netmask)

====
